---- MODULE Spec2Model ----
(***************************************************************************)
(* Model of the classification and aggregation engine of Internal_Audit:   *)
(* the amount normalisers, the tiered account classifier with its batch    *)
(* loop, and the balance sheet aggregation with its balance check.         *)
(*                                                                         *)
(* Text is a sequence of one-character strings.  A Python float result is  *)
(* an exact decimal [m, e] standing for m / 10^e (no trailing zeros), with *)
(* the field exc naming the exception the call ended with ("none" when it  *)
(* returned).  Balance sheet amounts are integers counting thousandths of  *)
(* the currency unit, so the tolerance 0.01 is 10.                         *)
(***************************************************************************)
EXTENDS Integers, Sequences, FiniteSets, TLC

(***************************************************************************)
(* Text helpers: str.lower, str.strip, str.split, str.endswith,            *)
(* str.replace, the regex class \w and the assertion \b.                   *)
(***************************************************************************)
UpperChars == <<"A","B","C","D","E","F","G","H","I","J","K","L","M",
                "N","O","P","Q","R","S","T","U","V","W","X","Y","Z">>

LowerChars == <<"a","b","c","d","e","f","g","h","i","j","k","l","m",
                "n","o","p","q","r","s","t","u","v","w","x","y","z">>

DigitChars == <<"0","1","2","3","4","5","6","7","8","9">>

Digits == {DigitChars[i] : i \in 1..10}

Letters == {UpperChars[i] : i \in 1..26} \cup {LowerChars[i] : i \in 1..26}

IsSpace(c) == c \in {" ", "\t"}

IsWordChar(c) == c \in Letters \cup Digits \cup {"_"}

LowerChar(c) ==
    IF \E i \in 1..26 : UpperChars[i] = c
    THEN LowerChars[CHOOSE i \in 1..26 : UpperChars[i] = c]
    ELSE c

lower(s) == [i \in 1..Len(s) |-> LowerChar(s[i])]

RECURSIVE lstrip(_)
lstrip(s) == IF s # <<>> /\ IsSpace(s[1]) THEN lstrip(Tail(s)) ELSE s

RECURSIVE rstrip(_)
rstrip(s) ==
    IF s # <<>> /\ IsSpace(s[Len(s)]) THEN rstrip(SubSeq(s, 1, Len(s) - 1)) ELSE s

strip(s) == rstrip(lstrip(s))

endswith(s, suffix) ==
    /\ Len(s) >= Len(suffix)
    /\ SubSeq(s, Len(s) - Len(suffix) + 1, Len(s)) = suffix

startswithAt(s, i, pat) ==
    /\ i + Len(pat) - 1 <= Len(s)
    /\ SubSeq(s, i, i + Len(pat) - 1) = pat

contains(s, pat) == \E i \in 1..(Len(s) + 1) : startswithAt(s, i, pat)

\* str.replace(pat, ''): remove the non-overlapping occurrences, left to right
RECURSIVE remove(_, _)
remove(s, pat) ==
    IF s = <<>> \/ pat = <<>> THEN s
    ELSE IF startswithAt(s, 1, pat) THEN remove(SubSeq(s, Len(pat) + 1, Len(s)), pat)
    ELSE <<s[1]>> \o remove(Tail(s), pat)

\* str.split(): the maximal runs of non-whitespace characters, in order
RECURSIVE split(_)
split(s) ==
    LET t == lstrip(s) IN
    IF t = <<>> THEN <<>>
    ELSE LET ends == {i \in 1..Len(t) : i = Len(t) \/ IsSpace(t[i + 1])}
             n == CHOOSE i \in ends : \A j \in ends : i <= j
         IN <<SubSeq(t, 1, n)>> \o split(SubSeq(t, n + 1, Len(t)))

\* \b between s[i] and s[i+1] (i = 0 is the start, i = Len(s) the end)
WordBoundary(s, i) ==
    LET before == i >= 1 /\ i <= Len(s) /\ IsWordChar(s[i])
        after == i + 1 >= 1 /\ i + 1 <= Len(s) /\ IsWordChar(s[i + 1])
    IN before # after

(***************************************************************************)
(* Python float(): results and the literals it accepts.  Only the literal  *)
(* forms that the alphabets below can spell are covered: an optional sign, *)
(* digits, at most one decimal point, at least one digit.                  *)
(***************************************************************************)
RECURSIVE Normalize(_, _)
Normalize(m, e) ==
    IF e > 0 /\ m % 10 = 0 THEN Normalize(m \div 10, e - 1)
    ELSE [exc |-> "none", m |-> m, e |-> e]

Raise(x) == [exc |-> x, m |-> 0, e |-> 0]

Zero == Normalize(0, 0)

Neg(f) == [f EXCEPT !.m = 0 - f.m]

DigitVal(c) == (CHOOSE i \in 1..10 : DigitChars[i] = c) - 1

RECURSIVE DigitsValue(_)
DigitsValue(s) ==
    IF s = <<>> THEN 0
    ELSE 10 * DigitsValue(SubSeq(s, 1, Len(s) - 1)) + DigitVal(s[Len(s)])

IsDigit(c) == c \in Digits

HasSign(t) == t # <<>> /\ t[1] \in {"+", "-"}

Unsigned(t) == IF HasSign(t) THEN Tail(t) ELSE t

IsFloatLiteral(t) ==
    LET u == Unsigned(t) IN
    /\ \A i \in 1..Len(u) : u[i] \in Digits \cup {"."}
    /\ Cardinality({i \in 1..Len(u) : u[i] = "."}) <= 1
    /\ \E i \in 1..Len(u) : u[i] \in Digits

\* the decimal value of an unsigned literal: the digits after the point
\* count as fractional places
DecimalValue(u) ==
    LET dots == {i \in 1..Len(u) : u[i] = "."}
        fracLen == IF dots = {} THEN 0 ELSE Len(u) - (CHOOSE i \in dots : TRUE)
    IN Normalize(DigitsValue(SelectSeq(u, IsDigit)), fracLen)

float(t) ==
    IF ~IsFloatLiteral(t) THEN Raise("ValueError")
    ELSE IF t[1] = "-" THEN Neg(DecimalValue(Unsigned(t)))
    ELSE DecimalValue(Unsigned(t))

(***************************************************************************)
(* Amount normalisers.  A raw value is a string, [kind |-> "str", s], or   *)
(* a missing cell (None / NaN), [kind |-> "none"].                         *)
(***************************************************************************)
Str(s) == [kind |-> "str", s |-> s]

Missing == [kind |-> "none", s |-> <<>>]

KeepNumeric(c) == c \in Digits \cup {".", "-", "+"}

\* notes/data_extraction.py parse_amount, line 84
IsCreditSuffix(s) == endswith(lower(s), <<"c", "r">>)

\* try: float(...) / if is_credit and amount > 0 / except ValueError
\* float() outside the try block: the ValueError escapes
CreditSigned_NoExcept(t, is_credit) ==
    LET amount == float(t) IN
    IF amount.exc # "none" THEN amount
    ELSE IF is_credit /\ amount.m > 0 THEN Neg(amount)
    ELSE amount

CreditSigned(t, is_credit) ==
    LET amount == float(t) IN
    IF amount.exc = "ValueError" THEN Zero
    ELSE IF amount.exc # "none" THEN amount
    ELSE IF is_credit /\ amount.m > 0 THEN Neg(amount)
    ELSE amount

parse_amount(amount_str) ==
    IF amount_str.kind = "none" \/ amount_str.s = <<>> THEN Zero
    ELSE LET s == strip(amount_str.s)
             is_credit == IsCreditSuffix(s)
             t == SelectSeq(s, KeepNumeric)
         IN IF t = <<>> \/ t \in {<<"-">>, <<"+">>} THEN Zero
            ELSE CreditSigned(t, is_credit)

\* test_mapping.py parse_amount: re.search(r'\bcr\b', s, re.IGNORECASE)
IsCreditWord(s) ==
    \E i \in 1..Len(s) :
        /\ startswithAt(lower(s), i, <<"c", "r">>)
        /\ WordBoundary(s, i - 1)
        /\ WordBoundary(s, i + 1)

tm_parse_amount(amount_str) ==
    IF amount_str.kind = "none" \/ amount_str.s = <<>> THEN Zero
    ELSE LET s == strip(amount_str.s)
             is_credit == IsCreditWord(s)
             t == SelectSeq(s, KeepNumeric)
         IN IF t = <<>> \/ t \in {<<"-">>, <<"+">>} THEN Zero
            ELSE CreditSigned(t, is_credit)

\* bs/balance_sheet_generator.py safe_float: the class [,Rs\.\s\(\)] (its
\* three non-ASCII members are outside the alphabet used here)
SafeFloatDropped(c) == c \in {",", "R", "s", ".", "(", ")"} \/ IsSpace(c)

SafeFloatKept(c) == ~SafeFloatDropped(c)

safe_float(value) ==
    IF value.kind = "none" \/ value.s = <<>> THEN Zero
    ELSE IF strip(value.s) \in {<<"-">>, <<"-", "-">>, <<"N", "o", "n", "e">>,
                                <<>>, <<"n", "u", "l", "l">>} THEN Zero
    ELSE LET stripped == SelectSeq(value.s, SafeFloatKept)
             cleaned == IF contains(value.s, <<"(">>) /\ contains(value.s, <<")">>)
                        THEN <<"-">> \o stripped
                        ELSE stripped
             r == float(cleaned)
         IN IF r.exc # "none" THEN Zero ELSE r

\* bs_generator_in_notes.py safe_float_conversion
ErrorValues ==
    { <<"-">>, <<"-", "-">>, <<>>, <<"N", "o", "n", "e">>,
      <<"#", "R", "E", "F", "!">>, <<"#", "D", "I", "V", "/", "0", "!">>,
      <<"#", "V", "A", "L", "U", "E", "!">>, <<"#", "N", "A", "M", "E", "?">>,
      <<"#", "N", "/", "A">>, <<"N", "A">>, <<"n", "i", "l">>,
      <<"N", "i", "l">>, <<"N", "I", "L">> }

\* the strings removed by the two chained str.replace lines (the rupee sign
\* of the source is outside the alphabet used here)
Formatting ==
    << <<",">>, <<"R", "s", ".">>, <<" ">>, <<"I", "N", "R">>,
       <<"L", "a", "k", "h", "s">>, <<"l", "a", "k", "h", "s">>,
       <<"L", "A", "K", "H", "S">> >>

RECURSIVE removeEach(_, _)
removeEach(s, pats) ==
    IF pats = <<>> THEN s ELSE removeEach(remove(s, Head(pats)), Tail(pats))

KeepDigitsDotMinus(c) == c \in Digits \cup {".", "-"}

NotParen(c) == c \notin {"(", ")"}

safe_float_conversion(value) ==
    IF value.kind = "none" THEN Zero
    ELSE LET str_val == strip(value.s) IN
         IF str_val \in ErrorValues THEN Zero
         ELSE LET plain == removeEach(str_val, Formatting)
                  is_negative == contains(plain, <<"(">>) /\ contains(plain, <<")">>)
                  t == SelectSeq(SelectSeq(plain, NotParen), KeepDigitsDotMinus)
              IN IF t = <<>> \/ t = <<"-">> \/ t = <<".">> THEN Zero
                 ELSE LET result == float(t) IN
                      IF result.exc \in {"ValueError", "TypeError"} THEN Zero
                      ELSE IF result.exc # "none" THEN result
                      ELSE IF is_negative THEN Neg(result)
                      ELSE result

(***************************************************************************)
(* Decimal arithmetic for amount = debit - credit                          *)
(***************************************************************************)
RECURSIVE Pow10(_)
Pow10(n) == IF n = 0 THEN 1 ELSE 10 * Pow10(n - 1)

Sub(a, b) ==
    LET e == IF a.e >= b.e THEN a.e ELSE b.e
    IN Normalize(a.m * Pow10(e - a.e) - b.m * Pow10(e - b.e), e)

(***************************************************************************)
(* Account classifier: the regular expressions of get_smart_rules.  Each   *)
(* pattern is \b(alt1|alt2|...)\b; an alternative is a sequence of pieces: *)
(* literal text, an optional character (x?), \s* and .*                    *)
(***************************************************************************)
Lit(w) == [k |-> "lit", w |-> w]

Opt(c) == [k |-> "opt", w |-> <<c>>]

Spaces == [k |-> "spaces", w |-> <<>>]

AnyChars == [k |-> "any", w |-> <<>>]

get_smart_rules ==
    <<
      [group |-> "Cash and Cash Equivalents",
       alts |-> <<
           <<Lit(<<"c", "a", "s", "h">>)>>,
           <<Lit(<<"b", "a", "n", "k">>)>>,
           <<Lit(<<"p", "e", "t", "t", "y">>)>>,
           <<Lit(<<"t", "i", "l", "l">>)>>,
           <<Lit(<<"v", "a", "u", "l", "t">>)>>,
           <<Lit(<<"f", "d">>)>>,
           <<Lit(<<"f", "i", "x", "e", "d">>), Spaces, Lit(<<"d", "e", "p", "o", "s", "i", "t">>)>> >>],
      [group |-> "Trade Receivables",
       alts |-> <<
           <<Lit(<<"d", "e", "b", "t", "o", "r">>)>>,
           <<Lit(<<"r", "e", "c", "e", "i", "v", "a", "b", "l", "e">>)>>,
           <<Lit(<<"c", "u", "s", "t", "o", "m", "e", "r">>)>>,
           <<Lit(<<"o", "u", "t", "s", "t", "a", "n", "d", "i", "n", "g">>), AnyChars, Lit(<<"d", "e", "b", "t", "o", "r">>)>> >>],
      [group |-> "Trade Payables",
       alts |-> <<
           <<Lit(<<"c", "r", "e", "d", "i", "t", "o", "r">>)>>,
           <<Lit(<<"p", "a", "y", "a", "b", "l", "e">>)>>,
           <<Lit(<<"s", "u", "p", "p", "l", "i", "e", "r">>)>>,
           <<Lit(<<"v", "e", "n", "d", "o", "r">>)>>,
           <<Lit(<<"o", "u", "t", "s", "t", "a", "n", "d", "i", "n", "g">>), AnyChars, Lit(<<"c", "r", "e", "d", "i", "t", "o", "r">>)>> >>],
      [group |-> "Inventories",
       alts |-> <<
           <<Lit(<<"s", "t", "o", "c", "k">>)>>,
           <<Lit(<<"i", "n", "v", "e", "n", "t", "o", "r", "y">>)>>,
           <<Lit(<<"g", "o", "o", "d", "s">>)>>,
           <<Lit(<<"r", "a", "w">>), Spaces, Lit(<<"m", "a", "t", "e", "r", "i", "a", "l">>)>>,
           <<Lit(<<"w", "i", "p">>)>>,
           <<Lit(<<"w", "o", "r", "k">>), AnyChars, Lit(<<"p", "r", "o", "g", "r", "e", "s", "s">>)>> >>],
      [group |-> "Property, Plant and Equipment",
       alts |-> <<
           <<Lit(<<"l", "a", "n", "d">>)>>,
           <<Lit(<<"b", "u", "i", "l", "d", "i", "n", "g">>)>>,
           <<Lit(<<"p", "l", "a", "n", "t">>)>>,
           <<Lit(<<"m", "a", "c", "h", "i", "n", "e", "r", "y">>)>>,
           <<Lit(<<"e", "q", "u", "i", "p", "m", "e", "n", "t">>)>>,
           <<Lit(<<"f", "u", "r", "n", "i", "t", "u", "r", "e">>)>>,
           <<Lit(<<"v", "e", "h", "i", "c", "l", "e">>)>>,
           <<Lit(<<"d", "e", "p", "r", "e", "c", "i", "a", "t", "i", "o", "n">>)>> >>],
      [group |-> "Equity Share Capital",
       alts |-> <<
           <<Lit(<<"c", "a", "p", "i", "t", "a", "l">>)>>,
           <<Lit(<<"s", "h", "a", "r", "e">>), AnyChars, Lit(<<"c", "a", "p", "i", "t", "a", "l">>)>>,
           <<Lit(<<"p", "a", "i", "d">>), AnyChars, Lit(<<"u", "p">>)>>,
           <<Lit(<<"e", "q", "u", "i", "t", "y">>)>> >>],
      [group |-> "Revenue from Operations",
       alts |-> <<
           <<Lit(<<"s", "a", "l", "e">>), Opt("s")>>,
           <<Lit(<<"r", "e", "v", "e", "n", "u", "e">>)>>,
           <<Lit(<<"t", "u", "r", "n", "o", "v", "e", "r">>)>>,
           <<Lit(<<"s", "e", "r", "v", "i", "c", "e">>), AnyChars, Lit(<<"i", "n", "c", "o", "m", "e">>)>> >>],
      [group |-> "Employee Benefits Expense",
       alts |-> <<
           <<Lit(<<"s", "a", "l", "a", "r", "y">>)>>,
           <<Lit(<<"w", "a", "g", "e">>), Opt("s")>>,
           <<Lit(<<"s", "t", "a", "f", "f">>)>>,
           <<Lit(<<"e", "m", "p", "l", "o", "y", "e", "e">>)>>,
           <<Lit(<<"p", "f">>)>>,
           <<Lit(<<"p", "r", "o", "v", "i", "d", "e", "n", "t">>)>>,
           <<Lit(<<"g", "r", "a", "t", "u", "i", "t", "y">>)>> >>],
      [group |-> "Finance Costs",
       alts |-> <<
           <<Lit(<<"i", "n", "t", "e", "r", "e", "s", "t">>)>>,
           <<Lit(<<"f", "i", "n", "a", "n", "c", "e">>), AnyChars, Lit(<<"c", "o", "s", "t">>)>>,
           <<Lit(<<"b", "a", "n", "k">>), AnyChars, Lit(<<"c", "h", "a", "r", "g", "e">>)>> >>],
      [group |-> "Other Current Liabilities",
       alts |-> <<
           <<Lit(<<"t", "d", "s">>)>>,
           <<Lit(<<"g", "s", "t">>)>>,
           <<Lit(<<"v", "a", "t">>)>>,
           <<Lit(<<"t", "a", "x">>), AnyChars, Lit(<<"p", "a", "y", "a", "b", "l", "e">>)>>,
           <<Lit(<<"s", "e", "r", "v", "i", "c", "e">>), AnyChars, Lit(<<"t", "a", "x">>)>> >>]
    >>

\* the positions at which a match of the pieces that starts at pos can end
\* (the index of the first character not consumed)
RECURSIVE MatchEnds(_, _, _)
MatchEnds(pieces, s, pos) ==
    IF pieces = <<>> THEN {pos}
    ELSE LET p == Head(pieces)
             rest == Tail(pieces)
         IN CASE p.k = "lit" ->
                   IF startswithAt(s, pos, p.w)
                   THEN MatchEnds(rest, s, pos + Len(p.w)) ELSE {}
              [] p.k = "opt" ->
                   MatchEnds(rest, s, pos) \cup
                   (IF startswithAt(s, pos, p.w)
                    THEN MatchEnds(rest, s, pos + 1) ELSE {})
              [] p.k = "spaces" ->
                   UNION {MatchEnds(rest, s, q) :
                            q \in {r \in pos..(Len(s) + 1) :
                                     \A j \in pos..(r - 1) : IsSpace(s[j])}}
              [] p.k = "any" ->
                   UNION {MatchEnds(rest, s, q) : q \in pos..(Len(s) + 1)}

\* re.search(r'\b(...)\b', s)
re_search(alts, s) ==
    \E i \in 1..(Len(s) + 1), a \in 1..Len(alts) :
        /\ WordBoundary(s, i - 1)
        /\ \E q \in MatchEnds(alts[a], s, i) : WordBoundary(s, q - 1)

\* test_mapping.py line 75: keyword.lower() in account_name_clean.split()
keyword_in_name(keyword, account_name_clean) ==
    \E k \in 1..Len(split(account_name_clean)) :
        split(account_name_clean)[k] = lower(keyword)

\* the inner loop over one group's keywords
keyword_rule_matches(keywords, account_name_clean) ==
    \E j \in 1..Len(keywords) : keyword_in_name(keywords[j], account_name_clean)

\* line 66: account_name in exact_mappings; the entry's position, or 0
exact_lookup(exact_mappings, account_name) ==
    IF \E k \in 1..Len(exact_mappings) : exact_mappings[k].name = account_name
    THEN CHOOSE k \in 1..Len(exact_mappings) : exact_mappings[k].name = account_name
    ELSE 0

\* lines 68-70: the first entry whose lower-cased name is the cleaned name
\* the comparison of line 69 without lower() on the mapped name
exact_ci_lookup_NoLower(exact_mappings, account_name_clean) ==
    LET hits == {k \in 1..Len(exact_mappings) :
                    exact_mappings[k].name = account_name_clean}
    IN IF hits = {} THEN 0 ELSE CHOOSE k \in hits : \A j \in hits : k <= j

exact_ci_lookup(exact_mappings, account_name_clean) ==
    LET hits == {k \in 1..Len(exact_mappings) :
                    lower(exact_mappings[k].name) = account_name_clean}
    IN IF hits = {} THEN 0 ELSE CHOOSE k \in hits : \A j \in hits : k <= j

\* str.isdigit() of the name without '.' and '-'
NotDotDash(c) == c \notin {".", "-"}

is_code_number(account_name) ==
    LET t == SelectSeq(account_name, NotDotDash)
    IN t # <<>> /\ \A i \in 1..Len(t) : t[i] \in Digits

\* what the external classifier can answer to one request
Labels == {"Current Asset", "Other Expenses"}

Responses ==
    { [kind |-> k, label |-> "", padded |-> FALSE] :
        k \in {"exception", "not_json", "error_body", "null_content"} }
    \cup { [kind |-> "content", label |-> l, padded |-> b] :
             l \in Labels, b \in BOOLEAN }

NoResponse == [kind |-> "none", label |-> "", padded |-> FALSE]

\* lines 107-112: response.json(), the path choices[0].message.content and
\* strip(); every exception is caught
\* the fallback with "except requests.exceptions.RequestException" only:
\* the failures of response.json() and of the subscripts escape
llm_result_Uncaught(response) ==
    IF response.kind = "content"
    THEN [group |-> response.label, mapped_by |-> "llm_fallback", exc |-> "none"]
    ELSE [group |-> "Unmapped", mapped_by |-> "Unmapped",
          exc |-> CASE response.kind = "not_json" -> "JSONDecodeError"
                    [] response.kind = "error_body" -> "KeyError"
                    [] response.kind = "null_content" -> "AttributeError"
                    [] OTHER -> "none"]

llm_result(response) ==
    IF response.kind = "content"
    THEN [group |-> response.label, mapped_by |-> "llm_fallback", exc |-> "none"]
    ELSE [group |-> "Unmapped", mapped_by |-> "Unmapped", exc |-> "none"]

(***************************************************************************)
(* temp_bl.py BalanceSheet.  The nested dictionaries are kept as one       *)
(* function from <<category, item>> to the item's {note, 2024, 2023}       *)
(* record, plus fa_extra: the keys "note", "2024" and "2023" that          *)
(* update_item can put on the "Fixed assets" dictionary itself (each an    *)
(* empty sequence while the key is absent).  A Python argument is          *)
(* [kind |-> "none" | "num" | "str", v].                                   *)
(***************************************************************************)
Tolerance == 10

Years == {"2024", "2023"}

None == [kind |-> "none", v |-> 0]

NoNote == [kind |-> "none", v |-> ""]

Note(n) == [kind |-> "str", v |-> n]

Num(v) == [kind |-> "num", v |-> v]

BadStr == [kind |-> "str", v |-> 0]

EquityLiabilityKeys ==
    { <<"Shareholders' funds", "Share capital">>,
      <<"Shareholders' funds", "Reserves and surplus">>,
      <<"Non-Current liabilities", "Long term borrowings">>,
      <<"Non-Current liabilities", "Deferred Tax Liability (Net)">>,
      <<"Current liabilities", "Trade payables">>,
      <<"Current liabilities", "Other current liabilities">>,
      <<"Current liabilities", "Short term provisions">> }

FixedAssetKeys ==
    { <<"Fixed assets", "Tangible assets">>,
      <<"Fixed assets", "Intangible assets">> }

OtherNonCurrentKeys ==
    { <<"Non-current assets", "Capital Work in progress">>,
      <<"Non-current assets", "Long Term Loans and Advances">> }

CurrentAssetKeys ==
    { <<"Current assets", "Inventories">>,
      <<"Current assets", "Trade receivables">>,
      <<"Current assets", "Cash and bank balances">>,
      <<"Current assets", "Short-term loans and advances">>,
      <<"Current assets", "Other current assets">> }

ItemKeys ==
    EquityLiabilityKeys \cup FixedAssetKeys \cup OtherNonCurrentKeys
        \cup CurrentAssetKeys

InitialNote(k) ==
    CASE k[2] = "Share capital" -> "2"
      [] k[2] = "Reserves and surplus" -> "3"
      [] k[2] = "Long term borrowings" -> "4"
      [] k[2] = "Deferred Tax Liability (Net)" -> "5"
      [] k[2] = "Trade payables" -> "6"
      [] k[2] = "Other current liabilities" -> "7"
      [] k[2] = "Short term provisions" -> "8"
      [] k[2] \in {"Tangible assets", "Intangible assets"} -> "9"
      [] k[2] = "Capital Work in progress" -> ""
      [] k[2] = "Long Term Loans and Advances" -> "10"
      [] k[2] = "Inventories" -> "11"
      [] k[2] = "Trade receivables" -> "12"
      [] k[2] = "Cash and bank balances" -> "13"
      [] k[2] = "Short-term loans and advances" -> "14"
      [] k[2] = "Other current assets" -> "15"

\* BalanceSheet.__init__
NewBalanceSheet ==
    [items |-> [k \in ItemKeys |-> [note |-> InitialNote(k), y2024 |-> 0, y2023 |-> 0]],
     fa_extra |-> [note |-> <<>>, y2024 |-> <<>>, y2023 |-> <<>>]]

\* lines 55-63: the dictionary update_item writes to: an item, the
\* "Fixed assets" dictionary itself, or none (KeyError / unknown section)
Target(section, category, item) ==
    IF section = "equity_liabilities"
    THEN IF <<category, item>> \in EquityLiabilityKeys
         THEN [kind |-> "item", key |-> <<category, item>>]
         ELSE [kind |-> "KeyError", key |-> <<"", "">>]
    ELSE IF section = "assets"
    THEN IF category = "Fixed assets"
         THEN IF <<category, item>> \in FixedAssetKeys
              THEN [kind |-> "item", key |-> <<category, item>>]
              ELSE [kind |-> "KeyError", key |-> <<"", "">>]
         ELSE IF <<category, item>> \in OtherNonCurrentKeys \cup CurrentAssetKeys
              THEN [kind |-> "item", key |-> <<category, item>>]
              ELSE IF category = "Non-current assets" /\ item = "Fixed assets"
                   THEN [kind |-> "fixed_assets_dict", key |-> <<"", "">>]
                   ELSE [kind |-> "KeyError", key |-> <<"", "">>]
    ELSE [kind |-> "unknown_section", key |-> <<"", "">>]

\* lines 65-67 on an item: str(note), float(val_2024), float(val_2023) in
\* this order; float of a non-numeric string raises ValueError and leaves
\* the assignments made before it
ItemAfter(old, note, val_2024, val_2023) ==
    LET a == IF note.kind = "none" THEN old ELSE [old EXCEPT !.note = note.v]
        b == IF val_2024.kind = "num" THEN [a EXCEPT !.y2024 = val_2024.v] ELSE a
        c == IF val_2024.kind # "str" /\ val_2023.kind = "num"
             THEN [b EXCEPT !.y2023 = val_2023.v] ELSE b
    IN c

ExtraAfter(old, note, val_2024, val_2023) ==
    LET a == IF note.kind = "none" THEN old ELSE [old EXCEPT !.note = <<note.v>>]
        b == IF val_2024.kind = "num" THEN [a EXCEPT !.y2024 = <<val_2024.v>>] ELSE a
        c == IF val_2024.kind # "str" /\ val_2023.kind = "num"
             THEN [b EXCEPT !.y2023 = <<val_2023.v>>] ELSE b
    IN c

update_item_state(sheet, section, category, item, note, val_2024, val_2023) ==
    LET t == Target(section, category, item) IN
    CASE t.kind = "item" ->
            [sheet EXCEPT !.items[t.key] = ItemAfter(@, note, val_2024, val_2023)]
      [] t.kind = "fixed_assets_dict" ->
            [sheet EXCEPT !.fa_extra = ExtraAfter(@, note, val_2024, val_2023)]
      [] OTHER -> sheet

\* "True", "False", or the exception that leaves update_item
update_item_return(section, category, item, note, val_2024, val_2023) ==
    LET t == Target(section, category, item) IN
    IF t.kind \in {"KeyError", "unknown_section"} THEN "False"
    ELSE IF val_2024.kind = "str" \/ val_2023.kind = "str" THEN "ValueError"
    ELSE "True"

RECURSIVE SumOver(_, _, _)
SumOver(items, keys, year) ==
    IF keys = {} THEN 0
    ELSE LET k == CHOOSE x \in keys : TRUE
         IN (IF year = "2024" THEN items[k].y2024 ELSE items[k].y2023)
              + SumOver(items, keys \ {k}, year)

CategoryKeys(keys, category) == {k \in keys : k[1] = category}

Abs(x) == IF x < 0 THEN 0 - x ELSE x

NoTotals ==
    [exc |-> "none",
     shareholders_funds |-> [y2024 |-> 0, y2023 |-> 0],
     non_current_liabilities |-> [y2024 |-> 0, y2023 |-> 0],
     current_liabilities |-> [y2024 |-> 0, y2023 |-> 0],
     total_equity_liabilities |-> [y2024 |-> 0, y2023 |-> 0],
     non_current_assets |-> [y2024 |-> 0, y2023 |-> 0],
     current_assets |-> [y2024 |-> 0, y2023 |-> 0],
     total_assets |-> [y2024 |-> 0, y2023 |-> 0],
     balanced |-> [y2024 |-> FALSE, y2023 |-> FALSE]]

\* line 122: abs(total_assets - total_eq_liab) < 0.01
\* the comparison of lines 122-123 with <= in place of <
is_balanced_Inclusive(total_assets, total_eq_liab) ==
    Abs(total_assets - total_eq_liab) <= Tolerance

is_balanced(total_assets, total_eq_liab) ==
    Abs(total_assets - total_eq_liab) < Tolerance

\* lines 96-108: fixed assets plus the two other non-current items
\* line 106 without the fixed assets
non_current_assets_total_NoFixed(items, year) ==
    SumOver(items, OtherNonCurrentKeys, year)

non_current_assets_total(items, year) ==
    SumOver(items, FixedAssetKeys, year) + SumOver(items, OtherNonCurrentKeys, year)

\* BalanceSheet.get_totals; the sum over the values of the "Fixed assets"
\* dictionary (line 97) raises TypeError once that dictionary holds
\* anything but its two items
get_totals(sheet) ==
    LET sf(y) == SumOver(sheet.items, CategoryKeys(EquityLiabilityKeys, "Shareholders' funds"), y)
        ncl(y) == SumOver(sheet.items, CategoryKeys(EquityLiabilityKeys, "Non-Current liabilities"), y)
        cl(y) == SumOver(sheet.items, CategoryKeys(EquityLiabilityKeys, "Current liabilities"), y)
        total_eq_liab(y) == sf(y) + ncl(y) + cl(y)
        nca(y) == non_current_assets_total(sheet.items, y)
        ca(y) == SumOver(sheet.items, CurrentAssetKeys, y)
        total_assets(y) == nca(y) + ca(y)
        balanced(y) == is_balanced(total_assets(y), total_eq_liab(y))
    IN IF sheet.fa_extra # NewBalanceSheet.fa_extra
       THEN [NoTotals EXCEPT !.exc = "TypeError"]
       ELSE [exc |-> "none",
             shareholders_funds |-> [y2024 |-> sf("2024"), y2023 |-> sf("2023")],
             non_current_liabilities |-> [y2024 |-> ncl("2024"), y2023 |-> ncl("2023")],
             current_liabilities |-> [y2024 |-> cl("2024"), y2023 |-> cl("2023")],
             total_equity_liabilities |-> [y2024 |-> total_eq_liab("2024"), y2023 |-> total_eq_liab("2023")],
             non_current_assets |-> [y2024 |-> nca("2024"), y2023 |-> nca("2023")],
             current_assets |-> [y2024 |-> ca("2024"), y2023 |-> ca("2023")],
             total_assets |-> [y2024 |-> total_assets("2024"), y2023 |-> total_assets("2023")],
             balanced |-> [y2024 |-> balanced("2024"), y2023 |-> balanced("2023")]]

(***************************************************************************)
(* bs/balance_sheet_generator.py: calculate_totals and the balance check   *)
(* of process.  An item is [category, value_2024, value_2023].             *)
(***************************************************************************)
RECURSIVE CategorySum(_, _, _)
CategorySum(items, category, year) ==
    IF items = <<>> THEN 0
    ELSE (IF Head(items).category = category
          THEN (IF year = "2024" THEN Head(items).value_2024
                ELSE Head(items).value_2023)
          ELSE 0)
         + CategorySum(Tail(items), category, year)

\* lines 419-420 of calculate_totals
total_equity_liab(shareholders_funds, share_app_money, non_current_liab, current_liab) ==
    shareholders_funds + share_app_money + non_current_liab + current_liab

calculate_totals(items) ==
    LET sf(y) == CategorySum(items, "Shareholders' funds", y)
        sam(y) == CategorySum(items, "Share application money pending allotment", y)
        ncl(y) == CategorySum(items, "Non-Current liabilities", y)
        cl(y) == CategorySum(items, "Current liabilities", y)
        nca(y) == CategorySum(items, "Non-current assets", y)
        ca(y) == CategorySum(items, "Current assets", y)
        tel(y) == total_equity_liab(sf(y), sam(y), ncl(y), cl(y))
        ta(y) == nca(y) + ca(y)
        diff(y) == Abs(ta(y) - tel(y))
    IN [shareholders_funds |-> [y2024 |-> sf("2024"), y2023 |-> sf("2023")],
        share_application_money |-> [y2024 |-> sam("2024"), y2023 |-> sam("2023")],
        non_current_liabilities |-> [y2024 |-> ncl("2024"), y2023 |-> ncl("2023")],
        current_liabilities |-> [y2024 |-> cl("2024"), y2023 |-> cl("2023")],
        non_current_assets |-> [y2024 |-> nca("2024"), y2023 |-> nca("2023")],
        current_assets |-> [y2024 |-> ca("2024"), y2023 |-> ca("2023")],
        total_equity_liabilities |-> [y2024 |-> tel("2024"), y2023 |-> tel("2023")],
        total_assets |-> [y2024 |-> ta("2024"), y2023 |-> ta("2023")],
        balance_difference |-> [y2024 |-> diff("2024"), y2023 |-> diff("2023")]]

\* process, lines 673-674: totals.balance_difference < 0.01
process_is_balanced(balance_difference) == balance_difference < Tolerance

(***************************************************************************)
(* bl_llm1.py generate_balance_sheet_excel: the totals it accumulates      *)
(* while writing the rows, and the balance check it prints after saving.   *)
(* financial_data holds five lists of [label, value_2024, value_2023].     *)
(***************************************************************************)
FixedAssetWords ==
    << <<"f", "i", "x", "e", "d">>, <<"t", "a", "n", "g", "i", "b", "l", "e">>,
       <<"i", "n", "t", "a", "n", "g", "i", "b", "l", "e">>,
       <<"p", "l", "a", "n", "t">>,
       <<"e", "q", "u", "i", "p", "m", "e", "n", "t">>,
       <<"b", "u", "i", "l", "d", "i", "n", "g">>, <<"l", "a", "n", "d">> >>

is_fixed_asset_label(label) ==
    \E w \in 1..Len(FixedAssetWords) : contains(lower(label), FixedAssetWords[w])

RECURSIVE ListSum(_, _)
ListSum(list, year) ==
    IF list = <<>> THEN 0
    ELSE (IF year = "2024" THEN Head(list).value_2024 ELSE Head(list).value_2023)
         + ListSum(Tail(list), year)

IsFixedItem(item) == is_fixed_asset_label(item.label)

IsOtherItem(item) == ~is_fixed_asset_label(item.label)

\* lines 375-484
excel_totals(fd) ==
    LET tel(y) == ListSum(fd.shareholders_funds, y)
                    + ListSum(fd.non_current_liabilities, y)
                    + ListSum(fd.current_liabilities, y)
        nca(y) == ListSum(SelectSeq(fd.non_current_assets, IsFixedItem), y)
                    + ListSum(SelectSeq(fd.non_current_assets, IsOtherItem), y)
        ta(y) == nca(y) + ListSum(fd.current_assets, y)
    IN [total_eq_liab |-> [y2024 |-> tel("2024"), y2023 |-> tel("2023")], total_assets |-> [y2024 |-> ta("2024"), y2023 |-> ta("2023")]]

\* lines 539-540
balance_check(total_assets, total_eq_liab) ==
    IF Abs(total_assets - total_eq_liab) < Tolerance THEN "BALANCED" ELSE "NOT BALANCED"

(***************************************************************************)
(* State.  Each component has its own variables; a behaviour exercises one *)
(* component and leaves the others at rest.                                *)
(***************************************************************************)
VARIABLES
    amount_str,       \* the raw value handed to a normaliser
    amount_out,       \* the normaliser that ran last and what it returned
    cfg,              \* exact_mappings, keyword_rules, api_key, module
    rows,             \* the rows of the sheet read by extract_trial_balance_data
    idx,              \* the number of rows consumed by the loop
    pc,               \* the position in the loop and in classify_account
    account_name,     \* the account name being classified
    amount,           \* the amount parsed for the current row
    ri,               \* the index of the rule about to be evaluated
    trace,            \* the checks classify_account made for the current name
    requests,         \* the account names sent to the external classifier
    response,         \* what the external classifier answered last
    result,           \* the (group, mapped_by) classify_account returned
    structured_data,  \* the records appended so far
    program,          \* which of the programs this behaviour runs
    bs,               \* the BalanceSheet object of temp_bl.py
    n_updates,        \* the number of update_item calls made on it
    ret,              \* the last BalanceSheet method called and its result
    gen_items,        \* the items handed to calculate_totals
    gen_out,          \* the totals and the balance flags of process
    financial_data,   \* the input of generate_balance_sheet_excel
    excel_out,        \* its totals and the balance check it printed
    report,           \* what analyze_and_save_results counted and saved
    tb_data,          \* the trial balance entries handed to the note steps
    note_in,          \* the keywords, exclusions and groups of the note
    note_out,         \* the note step that ran last and what it returned
    api,              \* one invocation of call_openrouter_api
    bs2,              \* a second BalanceSheet object, loaded with from_dict
    call              \* a function of the later steps, its argument and result

amountVars == <<amount_str, amount_out>>

classifyVars ==
    <<cfg, rows, idx, pc, account_name, amount, ri, trace, requests, response,
      result, structured_data>>

sheetVars == <<bs, n_updates, ret>>

generatorVars == <<gen_items, gen_out>>

excelVars == <<financial_data, excel_out>>

aggregateVars == <<sheetVars, generatorVars, excelVars>>

notesVars == <<tb_data, note_in, note_out>>

laterVars == <<api, bs2, call>>

downstreamVars == <<report, notesVars, laterVars>>

vars == <<program, amountVars, classifyVars, aggregateVars, downstreamVars>>

RECURSIVE SeqsUpTo(_, _)
SeqsUpTo(S, n) ==
    IF n = 0 THEN {<<>>}
    ELSE LET shorter == SeqsUpTo(S, n - 1)
         IN shorter \cup {<<c>> \o t : c \in S, t \in {u \in shorter : Len(u) = n - 1}}

NoOutput == [fn |-> "none", r |-> Zero]

NoResult == [group |-> "", mapped_by |-> "", exc |-> "none"]

NoConfig ==
    [exact_mappings |-> <<>>, keyword_rules |-> <<>>, api_key |-> FALSE,
     module |-> "none"]

AmountAtRest == amount_str = Missing /\ amount_out = NoOutput

ClassifyAtRest ==
    /\ cfg = NoConfig
    /\ rows = <<>>
    /\ idx = 0
    /\ pc = "off"
    /\ account_name = <<>>
    /\ amount = Zero
    /\ ri = 0
    /\ trace = <<>>
    /\ requests = <<>>
    /\ response = NoResponse
    /\ result = NoResult
    /\ structured_data = <<>>

NoReturn == [op |-> "none", exc |-> "none", val |-> FALSE, totals |-> NoTotals]

NoGenOut ==
    [stage |-> "none", totals |-> calculate_totals(<<>>),
     is_balanced |-> [y2024 |-> FALSE, y2023 |-> FALSE]]

NoFinancialData ==
    [shareholders_funds |-> <<>>, non_current_liabilities |-> <<>>,
     current_liabilities |-> <<>>, non_current_assets |-> <<>>,
     current_assets |-> <<>>]

NoExcelOut ==
    [stage |-> "none", totals |-> excel_totals(NoFinancialData),
     check |-> [y2024 |-> "", y2023 |-> ""]]

SheetAtRest == bs = NewBalanceSheet /\ n_updates = 0 /\ ret = NoReturn

GeneratorAtRest == gen_items = <<>> /\ gen_out = NoGenOut

ExcelAtRest == financial_data = NoFinancialData /\ excel_out = NoExcelOut

AggregateAtRest == SheetAtRest /\ GeneratorAtRest /\ ExcelAtRest

NoReport == [total_records |-> 0, mapped |-> 0, unmapped |-> 0, saved |-> <<>>]

NoNoteIn == [keywords |-> <<>>, exclude |-> <<>>, groups |-> <<>>,
             target_group |-> <<>>]

NoNoteOut == [fn |-> "none", exc |-> "none", accounts |-> <<>>, total |-> Zero]

NotesAtRest == tb_data = <<>> /\ note_in = NoNoteIn /\ note_out = NoNoteOut

NoApi == [pc |-> "off", model |-> "", sent |-> <<>>, responses |-> <<>>, content |-> ""]

NoSheet2 == [loaded |-> FALSE, sheet |-> NewBalanceSheet]

NoCall == [fn |-> "none", arg |-> <<>>, out |-> <<>>]

LaterAtRest == api = NoApi /\ bs2 = NoSheet2 /\ call = NoCall

DownstreamAtRest == report = NoReport /\ NotesAtRest /\ LaterAtRest

(***************************************************************************)
(* The normalisers applied to bounded inputs: an optional bracket, sign    *)
(* and currency symbol, an integer part, a fraction, a closing bracket and *)
(* a debit/credit marker, together with the spreadsheet error values.      *)
(***************************************************************************)
MaxIntDigits == 2

DigitAlphabet == {"0", "1", "7"}

IntParts ==
    SeqsUpTo(DigitAlphabet, MaxIntDigits)
        \cup {<<"1", ",", "2", "3", "4">>, <<"1", "2", "3", "4">>}

FracParts == {<<>>, <<".">>, <<".", "5">>, <<".", "5", "6">>, <<".", "0", "1">>}

Opens == {<<>>, <<"(">>}

Closes == {<<>>, <<")">>}

Signs == {<<>>, <<"-">>}

Currencies == {<<>>, <<"R", "s", ".">>, <<"R", "s", ".", " ">>}

Markers ==
    { <<>>, <<" ", "C", "r">>, <<"C", "r">>, <<" ", "c", "r">>, <<"C", "R">>,
      <<" ", "D", "r">>, <<"D", "r">>, <<" ", "d", "r">>, <<" ", "C", "r", " ">> }

OddValues ==
    ErrorValues \cup
    { <<"+">>, <<".">>, <<" ">>, <<"1", ".", "2", ".", "3">>, <<"1", "-", "2">>,
      <<"+", "-">>, <<"#", "N", "U", "M", "!">>, <<"n", "u", "l", "l">>,
      <<"a", "b", "c">>, <<"-", ".">>, <<"(", ")">>, <<"$", "5">> }

AmountStrings ==
    { o \o g \o c \o i \o f \o cl \o mk :
        o \in Opens, g \in Signs, c \in Currencies, i \in IntParts,
        f \in FracParts, cl \in Closes, mk \in Markers }
    \cup OddValues

AmountInputs == {Str(s) : s \in AmountStrings} \cup {Missing}

InitAmount ==
    /\ amount_str \in AmountInputs
    /\ amount_out = NoOutput
    /\ program = "amount"
    /\ ClassifyAtRest
    /\ AggregateAtRest
    /\ DownstreamAtRest

ParseAmount ==
    /\ amount_out' = [fn |-> "parse_amount", r |-> parse_amount(amount_str)]
    /\ UNCHANGED <<amount_str, program, downstreamVars, classifyVars, aggregateVars>>

TmParseAmount ==
    /\ amount_out' = [fn |-> "tm_parse_amount", r |-> tm_parse_amount(amount_str)]
    /\ UNCHANGED <<amount_str, program, downstreamVars, classifyVars, aggregateVars>>

SafeFloat ==
    /\ amount_out' = [fn |-> "safe_float", r |-> safe_float(amount_str)]
    /\ UNCHANGED <<amount_str, program, downstreamVars, classifyVars, aggregateVars>>

SafeFloatConversion ==
    /\ amount_out' = [fn |-> "safe_float_conversion",
                      r |-> safe_float_conversion(amount_str)]
    /\ UNCHANGED <<amount_str, program, downstreamVars, classifyVars, aggregateVars>>

NextAmount == ParseAmount \/ TmParseAmount \/ SafeFloat \/ SafeFloatConversion

SpecAmount == InitAmount /\ [][NextAmount]_vars

(***************************************************************************)
(* Properties of the amount normalisers                                    *)
(***************************************************************************)
IsSeparatorOrSymbol(c) == c \in {",", "R", "s", " "}

NotSeparatorOrSymbol(c) == ~IsSeparatorOrSymbol(c)

\* the digits and the decimal point of a decorated amount; "Rs." gives up
\* its own full stop together with its letters
Plain(s) == SelectSeq(remove(s, <<"R", "s", ".">>), NotSeparatorOrSymbol)

\* digits in groups of three divided by commas, or no comma at all
IsGroupedInteger(p) ==
    /\ p # <<>>
    /\ \A i \in 1..Len(p) : p[i] \in Digits \cup {","}
    /\ \/ \A i \in 1..Len(p) : p[i] # ","
       \/ /\ p[1] # ","
          /\ \A i \in 1..Len(p) : (p[i] = ",") <=> ((Len(p) - i + 1) % 4 = 0)

\* an optional currency symbol, a grouped integer part and an optional
\* fraction of at least one digit
IsWellFormedDecimal(s) ==
    LET body == lstrip(IF startswithAt(s, 1, <<"R", "s", ".">>)
                       THEN SubSeq(s, 4, Len(s))
                       ELSE s)
        dots == {i \in 1..Len(body) : body[i] = "."}
        dot == IF dots = {} THEN Len(body) + 1 ELSE CHOOSE i \in dots : TRUE
    IN /\ Cardinality(dots) <= 1
       /\ IsGroupedInteger(SubSeq(body, 1, dot - 1))
       /\ dots # {} => dot < Len(body)
       /\ \A i \in (dot + 1)..Len(body) : body[i] \in Digits

\* "(" ... ")" around a well-formed decimal
IsParenthesised(s) ==
    /\ Len(s) >= 3
    /\ s[1] = "("
    /\ s[Len(s)] = ")"
    /\ IsWellFormedDecimal(SubSeq(s, 2, Len(s) - 1))

EndsWithCr(s) ==
    Len(s) >= 2 /\ s[Len(s) - 1] \in {"C", "c"} /\ s[Len(s)] \in {"R", "r"}

EndsWithDr(s) ==
    Len(s) >= 2 /\ s[Len(s) - 1] \in {"D", "d"} /\ s[Len(s)] \in {"R", "r"}

\* the token parse_amount hands to float(), and its value "as parsed"
NumericToken(s) == SelectSeq(strip(s), KeepNumeric)

AsParsed(s) ==
    IF IsFloatLiteral(NumericToken(s)) THEN float(NumericToken(s)) ELSE Zero

\* C7: an amount wrapped in parentheses is returned by parse_amount (both
\* copies) as the negative of the enclosed magnitude, e.g. "(1,234.56)" as
\* -1234.56
C7_ParenthesesNegative ==
    (amount_out.fn \in {"parse_amount", "tm_parse_amount"}
        /\ amount_str.kind = "str"
        /\ IsParenthesised(amount_str.s))
    => amount_out.r = Neg(DecimalValue(Plain(SubSeq(amount_str.s, 2,
                                                   Len(amount_str.s) - 1))))

\* C8: parse_amount (both copies) on a string ending in Cr (any case, with
\* or without a space before it) negates a positive parsed value and keeps
\* a negative one; on a string ending in Dr it returns the value as parsed
C8_CreditDebitMarker ==
    (amount_out.fn \in {"parse_amount", "tm_parse_amount"}
        /\ amount_str.kind = "str")
    => LET s == strip(amount_str.s)
           p == AsParsed(s)
       IN /\ EndsWithCr(s) =>
                amount_out.r = (IF p.m > 0 THEN Neg(p) ELSE p)
          /\ EndsWithDr(s) => amount_out.r = p

IsDegenerate(fn, a) ==
    \/ a.kind = "none"
    \/ strip(a.s) \in ErrorValues \cup {<<"+">>, <<".">>}
    \/ LET t == IF fn = "safe_float_conversion"
                THEN SelectSeq(removeEach(strip(a.s), Formatting),
                               KeepDigitsDotMinus)
                ELSE NumericToken(a.s)
       IN t \in {<<>>, <<"-">>, <<"+">>, <<".">>} \/ ~IsFloatLiteral(t)

\* C9: parse_amount (both copies) and safe_float_conversion never raise,
\* and return 0.0 when the stripped token is empty, a lone sign, a lone
\* decimal point, an error value, or otherwise not a number
C9_NeverRaises ==
    amount_out.fn \in {"parse_amount", "tm_parse_amount", "safe_float_conversion"}
    => /\ amount_out.r.exc = "none"
       /\ IsDegenerate(amount_out.fn, amount_str) => amount_out.r = Zero

C9_Witness ==
    /\ amount_out.fn = "parse_amount"
    /\ amount_str = Str(<<"1", ".", "2", ".", "3">>)
    /\ amount_out.r = Zero

\* C10: safe_float on a well-formed decimal with thousands separators and
\* currency symbols returns what it returns for the plain string, and that
\* is the decimal's value with the point in its place
C10_SeparatorsKeepValue ==
    (amount_out.fn = "safe_float" /\ amount_str.kind = "str"
        /\ IsWellFormedDecimal(amount_str.s))
    => /\ amount_out.r = safe_float(Str(Plain(amount_str.s)))
       /\ amount_out.r = DecimalValue(Plain(amount_str.s))

(***************************************************************************)
(* extract_trial_balance_data and classify_account.  The two copies of the *)
(* code (test_mapping.py and notes/data_extraction.py) share the loop and  *)
(* the three local tiers; only test_mapping.py calls the external          *)
(* classifier, and only when OPENROUTER_API_KEY is set.                    *)
(***************************************************************************)
MaxRows == 2

SourceFile == "Trial Balance.xlsx"

\* account names of the sample sheet
Cash == <<"C", "a", "s", "h">>

cash == <<"c", "a", "s", "h">>

BankCharges == <<"B", "a", "n", "k", " ", "C", "h", "a", "r", "g", "e", "s">>

InterestPaid == <<"I", "n", "t", "e", "r", "e", "s", "t", " ", "P", "a", "i", "d">>

Suspense == <<"S", "u", "s", "p", "e", "n", "s", "e">>

\* a row is <<account, debit, credit, closing balance>>
SampleRows ==
    { <<Str(Cash), Str(<<"1", "0", "0">>), Str(<<"4", "0">>), Missing>>,
      <<Str(cash), Missing, Missing,
        Str(<<"1", ",", "2", "3", "4", ".", "5", "6", " ", "C", "r">>)>>,
      <<Str(BankCharges), Missing, Missing, Str(<<"(", "5", ")">>)>>,
      <<Str(InterestPaid), Missing, Missing, Str(<<"1", "2", ".", "5">>)>>,
      <<Str(Suspense \o <<" ">>), Missing, Missing, Str(<<"7">>)>>,
      <<Missing, Missing, Missing, Missing>>,
      <<Str(<<"1", "0", "0", "1">>), Missing, Missing, Str(<<"7">>)>> }

\* config/mapping.json and config/rules.json of the sample run
SampleMappings ==
    << [name |-> <<"C", "A", "S", "H">>, group |-> "Cash and Cash Equivalents"],
       [name |-> Cash, group |-> "Current Asset"] >>

SampleRules ==
    << [group |-> "Bank Balances", keywords |-> << <<"b", "a", "n", "k">>, Cash >>],
       [group |-> "Other Expenses",
        keywords |-> << <<"C", "h", "a", "r", "g", "e", "s">>, <<"b", "a", "n", "k">>,
                        lower(InterestPaid) >>] >>

Configs ==
    { [exact_mappings |-> f[1], keyword_rules |-> f[2], api_key |-> m[2],
       module |-> m[1]] :
        f \in {<<SampleMappings, SampleRules>>, << <<>>, <<>> >>},
        m \in {<<"test_mapping", TRUE>>, <<"test_mapping", FALSE>>,
               <<"data_extraction", FALSE>>} }

InitClassify ==
    /\ program = "classify"
    /\ AmountAtRest
    /\ AggregateAtRest
    /\ DownstreamAtRest
    /\ cfg \in Configs
    /\ rows \in SeqsUpTo(SampleRows, MaxRows)
    /\ idx = 0
    /\ pc = "loop"
    /\ account_name = <<>>
    /\ amount = Zero
    /\ ri = 0
    /\ trace = <<>>
    /\ requests = <<>>
    /\ response = NoResponse
    /\ result = NoResult
    /\ structured_data = <<>>

Check(tier, i) == [tier |-> tier, i |-> i]

account_name_clean == lower(strip(account_name))

RowParse(cell) ==
    IF cfg.module = "test_mapping" THEN tm_parse_amount(cell) ELSE parse_amount(cell)

\* lines 127-132: a blank, short or all-digit account cell is passed over
RowSkipped(row) ==
    \/ Len(row) = 0
    \/ row[1].kind = "none"
    \/ strip(row[1].s) = <<>>
    \/ Len(strip(row[1].s)) <= 2
    \/ is_code_number(strip(row[1].s))

\* lines 133-139
RowAmount(row) ==
    IF Len(row) > 3 /\ row[4].kind # "none" THEN RowParse(row[4])
    ELSE IF Len(row) > 2
         THEN Sub(IF Len(row) > 1 THEN RowParse(row[2]) ELSE Zero,
                  IF Len(row) > 2 THEN RowParse(row[3]) ELSE Zero)
         ELSE Zero

SkipRow ==
    /\ pc = "loop"
    /\ idx < Len(rows)
    /\ RowSkipped(rows[idx + 1])
    /\ idx' = idx + 1
    /\ UNCHANGED <<program, downstreamVars, amountVars, aggregateVars, cfg, rows, pc, account_name, amount, ri, trace,
                   requests, response, result, structured_data>>

\* the row is kept: its amount is parsed and classify_account is entered
ReadRow ==
    /\ pc = "loop"
    /\ idx < Len(rows)
    /\ ~RowSkipped(rows[idx + 1])
    /\ idx' = idx + 1
    /\ account_name' = strip(rows[idx + 1][1].s)
    /\ amount' = RowAmount(rows[idx + 1])
    /\ pc' = "exact"
    /\ trace' = <<>>
    /\ ri' = 0
    /\ result' = NoResult
    /\ UNCHANGED <<program, downstreamVars, amountVars, aggregateVars, cfg, rows, requests, response, structured_data>>

\* line 66: if account_name in exact_mappings
ExactMatch ==
    /\ pc = "exact"
    /\ trace' = Append(trace, Check("exact", 0))
    /\ LET k == exact_lookup(cfg.exact_mappings, account_name) IN
       IF k # 0
       THEN /\ result' = [group |-> cfg.exact_mappings[k].group,
                          mapped_by |-> "mapping.json", exc |-> "none"]
            /\ pc' = "classified"
       ELSE /\ pc' = "exact_ci"
            /\ UNCHANGED result
    /\ UNCHANGED <<program, downstreamVars, amountVars, aggregateVars, cfg, rows, idx, account_name, amount, ri, requests,
                   response, structured_data>>

\* lines 68-70: the case-insensitive pass over the entries
ExactMatchIgnoringCase ==
    /\ pc = "exact_ci"
    /\ trace' = Append(trace, Check("exact_ci", 0))
    /\ LET k == exact_ci_lookup(cfg.exact_mappings, account_name_clean) IN
       IF k # 0
       THEN /\ result' = [group |-> cfg.exact_mappings[k].group,
                          mapped_by |-> "mapping.json", exc |-> "none"]
            /\ pc' = "classified"
            /\ UNCHANGED ri
       ELSE /\ pc' = IF Len(cfg.keyword_rules) > 0 THEN "keyword" ELSE "pattern"
            /\ ri' = 1
            /\ UNCHANGED result
    /\ UNCHANGED <<program, downstreamVars, amountVars, aggregateVars, cfg, rows, idx, account_name, amount, requests,
                   response, structured_data>>

\* lines 73-76: one iteration of the loop over keyword_rules.items()
\* the keyword loop without the return of line 76: the match is recorded
\* and the search goes on
KeywordRule_NoReturn ==
    /\ pc = "keyword"
    /\ trace' = Append(trace, Check("keyword", ri))
    /\ result' = IF keyword_rule_matches(cfg.keyword_rules[ri].keywords,
                                         account_name_clean)
                 THEN [group |-> cfg.keyword_rules[ri].group,
                       mapped_by |-> "rules.json", exc |-> "none"]
                 ELSE result
    /\ pc' = IF ri < Len(cfg.keyword_rules) THEN "keyword" ELSE "pattern"
    /\ ri' = IF ri < Len(cfg.keyword_rules) THEN ri + 1 ELSE 1
    /\ UNCHANGED <<program, downstreamVars, amountVars, aggregateVars, cfg, rows, idx, account_name, amount, requests,
                   response, structured_data>>

KeywordRule ==
    /\ pc = "keyword"
    /\ trace' = Append(trace, Check("keyword", ri))
    /\ IF keyword_rule_matches(cfg.keyword_rules[ri].keywords, account_name_clean)
       THEN /\ result' = [group |-> cfg.keyword_rules[ri].group,
                          mapped_by |-> "rules.json", exc |-> "none"]
            /\ pc' = "classified"
            /\ UNCHANGED ri
       ELSE /\ pc' = IF ri < Len(cfg.keyword_rules) THEN "keyword" ELSE "pattern"
            /\ ri' = IF ri < Len(cfg.keyword_rules) THEN ri + 1 ELSE 1
            /\ UNCHANGED result
    /\ UNCHANGED <<program, downstreamVars, amountVars, aggregateVars, cfg, rows, idx, account_name, amount, requests,
                   response, structured_data>>

\* lines 79-82: one iteration of the loop over smart_rules.items()
PatternRule ==
    /\ pc = "pattern"
    /\ trace' = Append(trace, Check("pattern", ri))
    /\ IF re_search(get_smart_rules[ri].alts, account_name_clean)
       THEN /\ result' = [group |-> get_smart_rules[ri].group,
                          mapped_by |-> "smart_rules", exc |-> "none"]
            /\ pc' = "classified"
            /\ UNCHANGED ri
       ELSE /\ pc' = IF ri < Len(get_smart_rules) THEN "pattern" ELSE "llm"
            /\ ri' = IF ri < Len(get_smart_rules) THEN ri + 1 ELSE 0
            /\ UNCHANGED result
    /\ UNCHANGED <<program, downstreamVars, amountVars, aggregateVars, cfg, rows, idx, account_name, amount, requests,
                   response, structured_data>>

\* line 85 with no api_key, and data_extraction.py where the call is
\* commented out: straight to line 115
NoExternalClassifier ==
    /\ pc = "llm"
    /\ ~(cfg.module = "test_mapping" /\ cfg.api_key)
    /\ result' = [group |-> "Unmapped", mapped_by |-> "Unmapped", exc |-> "none"]
    /\ pc' = "classified"
    /\ UNCHANGED <<program, downstreamVars, amountVars, aggregateVars, cfg, rows, idx, account_name, amount, ri, trace,
                   requests, response, structured_data>>

\* lines 87-106: the keyword arguments of the call of requests.post
post_kwargs == {"headers", "json"}

\* lines 85-106: requests.post with the account name as the user message
LlmRequest ==
    /\ pc = "llm"
    /\ cfg.module = "test_mapping" /\ cfg.api_key
    /\ trace' = Append(trace, Check("llm", 0))
    /\ requests' = Append(requests, account_name)
    /\ \E r \in Responses : response' = r
    /\ pc' = "llm_wait"
    /\ UNCHANGED <<program, downstreamVars, amountVars, aggregateVars, cfg, rows, idx, account_name, amount, ri, result,
                   structured_data>>

\* lines 107-115
LlmReturn ==
    /\ pc = "llm_wait"
    /\ result' = llm_result(response)
    /\ pc' = IF llm_result(response).exc = "none" THEN "classified" ELSE "raised"
    /\ UNCHANGED <<program, downstreamVars, amountVars, aggregateVars, cfg, rows, idx, account_name, amount, ri, trace,
                   requests, response, structured_data>>

\* lines 141-148
AppendRecord ==
    /\ pc = "classified"
    /\ structured_data' =
          Append(structured_data,
                 [account_name |-> account_name, group |-> result.group,
                  amount |-> amount, mapped_by |-> result.mapped_by,
                  source_file |-> SourceFile])
    /\ response' = NoResponse
    /\ pc' = "loop"
    /\ UNCHANGED <<program, downstreamVars, amountVars, aggregateVars, cfg, rows, idx, account_name, amount, ri, trace,
                   requests, result>>

\* line 149: return structured_data
ReturnData ==
    /\ pc = "loop"
    /\ idx = Len(rows)
    /\ pc' = "done"
    /\ UNCHANGED <<program, downstreamVars, amountVars, aggregateVars, cfg, rows, idx, account_name, amount, ri, trace,
                   requests, response, result, structured_data>>

\* test_mapping.py lines 153-154
IsMappedRecord(r) == r.mapped_by # "Unmapped"

IsUnmappedRecord(r) == r.mapped_by = "Unmapped"

\* analyze_and_save_results with the unmapped records left out of the file
analyze_and_save_results_MappedOnly(data) ==
    [total_records |-> Len(data),
     mapped |-> Len(SelectSeq(data, IsMappedRecord)),
     unmapped |-> Len(SelectSeq(data, IsUnmappedRecord)),
     saved |-> SelectSeq(data, IsMappedRecord)]

\* lines 152-154 (the counts it prints) and 169-170 (json.dump of the
\* whole list)
analyze_and_save_results(data) ==
    [total_records |-> Len(data),
     mapped |-> Len(SelectSeq(data, IsMappedRecord)),
     unmapped |-> Len(SelectSeq(data, IsUnmappedRecord)),
     saved |-> data]

\* __main__, lines 251-253: the extracted list is analysed and saved
AnalyzeAndSaveResults ==
    /\ pc = "done"
    /\ report' = analyze_and_save_results(structured_data)
    /\ pc' = "saved"
    /\ UNCHANGED <<program, notesVars, laterVars, amountVars, aggregateVars, cfg, rows, idx,
                   account_name, amount, ri, trace, requests, response, result,
                   structured_data>>

NextClassify ==
    \/ SkipRow
    \/ ReadRow
    \/ ExactMatch
    \/ ExactMatchIgnoringCase
    \/ KeywordRule
    \/ PatternRule
    \/ NoExternalClassifier
    \/ LlmRequest
    \/ LlmReturn
    \/ AppendRecord
    \/ ReturnData
    \/ AnalyzeAndSaveResults

SpecClassify == InitClassify /\ [][NextClassify]_vars

(***************************************************************************)
(* Properties of the classifier                                            *)
(***************************************************************************)
Classifying == pc \in {"exact", "exact_ci", "keyword", "pattern", "llm",
                       "llm_wait", "classified"}

\* the entries, rules and patterns that match the current name, stated
\* directly on the configuration
ExactHits ==
    {k \in 1..Len(cfg.exact_mappings) :
        \/ cfg.exact_mappings[k].name = account_name
        \/ lower(cfg.exact_mappings[k].name) = lower(strip(account_name))}

KeywordHit(i) ==
    \E j \in 1..Len(cfg.keyword_rules[i].keywords) :
        \E w \in 1..Len(split(lower(strip(account_name)))) :
            split(lower(strip(account_name)))[w] =
                lower(cfg.keyword_rules[i].keywords[j])

KeywordHits == {i \in 1..Len(cfg.keyword_rules) : KeywordHit(i)}

PatternHit(i) == re_search(get_smart_rules[i].alts, lower(strip(account_name)))

PatternHits == {i \in 1..Len(get_smart_rules) : PatternHit(i)}

NoLocalHit == ExactHits = {} /\ KeywordHits = {} /\ PatternHits = {}

ExternalConfigured == cfg.module = "test_mapping" /\ cfg.api_key

\* C1: a name that matches an exact-mapping entry, with or without regard
\* to case, is returned with that entry's group and the tag mapping.json,
\* and no keyword rule, pattern or external call is tried for it
C1_ExactMapFirst ==
    (Classifying /\ ExactHits # {})
    => /\ pc \in {"exact", "exact_ci", "classified"}
       /\ \A p \in 1..Len(trace) : trace[p].tier \in {"exact", "exact_ci"}
       /\ pc = "classified" =>
            /\ result.mapped_by = "mapping.json"
            /\ \E k \in ExactHits : result.group = cfg.exact_mappings[k].group
            /\ \A k \in ExactHits :
                 cfg.exact_mappings[k].name = account_name
                     => result.group = cfg.exact_mappings[k].group

C1_Witness ==
    /\ pc = "classified"
    /\ account_name = cash
    /\ ExactHits # {} /\ KeywordHits # {} /\ PatternHits # {}
    /\ ExternalConfigured
    /\ result.mapped_by = "mapping.json"
    /\ result.group = "Cash and Cash Equivalents"

\* the place of a check in the fixed order of tiers and rules
Rank(c) ==
    CASE c.tier = "exact" -> 1
      [] c.tier = "exact_ci" -> 2
      [] c.tier = "keyword" -> 2 + c.i
      [] c.tier = "pattern" -> 2 + Len(cfg.keyword_rules) + c.i
      [] c.tier = "llm" -> 3 + Len(cfg.keyword_rules) + Len(get_smart_rules)

Matched(c) ==
    CASE c.tier = "exact" ->
            \E k \in 1..Len(cfg.exact_mappings) :
                cfg.exact_mappings[k].name = account_name
      [] c.tier = "exact_ci" -> ExactHits # {}
      [] c.tier = "keyword" -> KeywordHit(c.i)
      [] c.tier = "pattern" -> PatternHit(c.i)
      [] c.tier = "llm" -> response.kind = "content"

Outcome(c) ==
    CASE c.tier \in {"exact", "exact_ci"} -> "mapping.json"
      [] c.tier = "keyword" -> "rules.json"
      [] c.tier = "pattern" -> "smart_rules"
      [] c.tier = "llm" -> "llm_fallback"

OutcomeGroup(c) ==
    CASE c.tier \in {"exact", "exact_ci"} ->
            {cfg.exact_mappings[k].group : k \in ExactHits}
      [] c.tier = "keyword" -> {cfg.keyword_rules[c.i].group}
      [] c.tier = "pattern" -> {get_smart_rules[c.i].group}
      [] c.tier = "llm" -> {response.label}

\* C2: when classify_account returns, the checks it made are the first ones
\* of the fixed order exact mapping, keyword rules, pattern rules, external
\* classifier (a request to the external classifier being a check); none
\* was made after one had matched, and the result is that of the first
\* match, or Unmapped when none matched
C2_FirstMatchWins ==
    pc = "classified"
    => /\ \A p \in 1..Len(trace) : Rank(trace[p]) = p
       /\ \A p \in 1..(Len(trace) - 1) : ~Matched(trace[p])
       /\ LET last == trace[Len(trace)] IN
          IF Matched(last)
          THEN /\ result.mapped_by = Outcome(last)
               /\ result.group \in OutcomeGroup(last)
          ELSE /\ result.mapped_by = "Unmapped"
               /\ result.group = "Unmapped"
               /\ Rank(last) >= 2 + Len(cfg.keyword_rules) + Len(get_smart_rules)

C2_Witness ==
    /\ pc = "classified"
    /\ account_name = BankCharges
    /\ KeywordHits = {1, 2}
    /\ PatternHits # {}
    /\ trace[Len(trace)] = Check("keyword", 1)
    /\ result.mapped_by = "rules.json"
    /\ result.group = "Bank Balances"

\* C3: with no local match, an unconfigured external classifier or a call
\* that fails (transport error or timeout, unreadable body, error body,
\* missing content) gives ('Unmapped', 'Unmapped'), and classify_account
\* never ends with an exception
C3_FailureIsUnmapped ==
    /\ pc # "raised"
    /\ (pc = "classified" /\ NoLocalHit
          /\ (~ExternalConfigured \/ response.kind # "content"))
       => /\ result.group = "Unmapped"
          /\ result.mapped_by = "Unmapped"
          /\ result.exc = "none"

C3_Witness ==
    /\ pc = "classified"
    /\ NoLocalHit
    /\ ExternalConfigured
    /\ response.kind = "error_body"
    /\ result.mapped_by = "Unmapped"

\* C4: in one run of extract_trial_balance_data no account name is sent to
\* the external classifier more than once
C4_OneRequestPerName ==
    \A i, j \in 1..Len(requests) : requests[i] = requests[j] => i = j

\* the records of the run whose group is Unmapped, in order
UnmappedEntries(data) ==
    LET keep == {i \in 1..Len(data) : data[i].group = "Unmapped"}
        pick[i \in 0..Len(data)] ==
            IF i = 0 THEN <<>>
            ELSE IF i \in keep THEN Append(pick[i - 1], data[i]) ELSE pick[i - 1]
    IN pick[Len(data)]

\* C11: after analyze_and_save_results the mapped and the unmapped counts
\* add up to the number of records produced, the unmapped count is the
\* number of Unmapped records, and every Unmapped record is in the saved
\* output
C11_UnmappedKept ==
    pc = "saved"
    => /\ report.total_records = Len(structured_data)
       /\ report.mapped + report.unmapped = report.total_records
       /\ report.unmapped = Len(UnmappedEntries(structured_data))
       /\ UnmappedEntries(report.saved) = UnmappedEntries(structured_data)
       /\ Len(report.saved) = report.total_records

C11_Witness ==
    /\ pc = "saved"
    /\ report.total_records = 2
    /\ report.mapped = 1
    /\ report.unmapped = 1
    /\ report.saved[2].group = "Unmapped"
    /\ report.saved[2].account_name = Suspense

(***************************************************************************)
(* The aggregators: a BalanceSheet object under update_item, get_totals    *)
(* and validate_balance; calculate_totals and the check of process; and    *)
(* generate_balance_sheet_excel.                                           *)
(***************************************************************************)
MaxUpdates == 2

MaxItems == 2

\* the (section, category, item) arguments tried: items of both sections,
\* the addresses used by the example at the end of temp_bl.py, the
\* "Fixed assets" dictionary and unknown names
Addresses ==
    { <<"equity_liabilities", "Shareholders' funds", "Share capital">>,
      <<"equity_liabilities", "Shareholders' funds", "Reserves and surplus">>,
      <<"equity_liabilities", "Current liabilities", "Trade payables">>,
      <<"assets", "Fixed assets", "Tangible assets">>,
      <<"assets", "Non-current assets", "Capital Work in progress">>,
      <<"assets", "Current assets", "Inventories">>,
      <<"assets", "Non-current assets", "Tangible assets">>,
      <<"assets", "Capital Work in progress", "Capital Work in progress">>,
      <<"assets", "Non-current assets", "Fixed assets">>,
      <<"equity_liabilities", "Current assets", "Inventories">>,
      <<"liabilities", "Current liabilities", "Trade payables">> }

\* the (note, val_2024, val_2023) arguments tried, in thousandths
Arguments ==
    { <<Note("2"), Num(10), Num(10)>>,
      <<NoNote, Num(5), None>>,
      <<NoNote, Num(15), Num(5)>>,
      <<NoNote, None, Num(20)>>,
      <<Note("7"), BadStr, Num(5)>>,
      <<NoNote, None, None>> }

InitSheet ==
    /\ program = "temp_bl"
    /\ bs = NewBalanceSheet
    /\ n_updates = 0
    /\ ret = NoReturn
    /\ GeneratorAtRest
    /\ ExcelAtRest

UpdateItem ==
    /\ program = "temp_bl"
    /\ n_updates < MaxUpdates
    /\ \E a \in Addresses, g \in Arguments :
          /\ bs' = update_item_state(bs, a[1], a[2], a[3], g[1], g[2], g[3])
          /\ ret' =
               LET r == update_item_return(a[1], a[2], a[3], g[1], g[2], g[3])
               IN [op |-> "update_item",
                   exc |-> IF r \in {"True", "False"} THEN "none" ELSE r,
                   val |-> r = "True", totals |-> NoTotals]
    /\ n_updates' = n_updates + 1
    /\ UNCHANGED <<program, downstreamVars, amountVars, classifyVars, generatorVars, excelVars>>

\* get_totals adding what the call before it returned to the totals of
\* this call
GetTotals_Accumulating ==
    /\ program = "temp_bl"
    /\ ret' = LET totals == get_totals(bs)
              IN [op |-> "get_totals", exc |-> totals.exc, val |-> FALSE,
                  totals |->
                     IF ret.op = "get_totals" /\ ret.totals = totals
                     THEN [totals EXCEPT
                             !.total_assets =
                                [y2024 |-> @.y2024 + ret.totals.total_assets.y2024,
                                 y2023 |-> @.y2023 + ret.totals.total_assets.y2023]]
                     ELSE totals]
    /\ UNCHANGED <<program, downstreamVars, amountVars, classifyVars, bs, n_updates, generatorVars,
                   excelVars>>

GetTotals ==
    /\ program = "temp_bl"
    /\ ret' = [op |-> "get_totals", exc |-> get_totals(bs).exc, val |-> FALSE,
               totals |-> get_totals(bs)]
    /\ UNCHANGED <<program, downstreamVars, amountVars, classifyVars, bs, n_updates, generatorVars,
                   excelVars>>

\* validate_balance moving the difference of 2024 into "Other current
\* assets" when the sheet does not balance
ValidateBalance_AutoCorrect ==
    /\ program = "temp_bl"
    /\ LET totals == get_totals(bs)
           val == totals.exc = "none" /\ totals.balanced.y2024 /\ totals.balanced.y2023
       IN /\ ret' = [op |-> "validate_balance", exc |-> totals.exc, val |-> val,
                     totals |-> NoTotals]
          /\ bs' = IF totals.exc = "none" /\ ~val
                   THEN [bs EXCEPT
                           !.items[<<"Current assets", "Other current assets">>].y2024 =
                               @ + totals.total_equity_liabilities.y2024
                                 - totals.total_assets.y2024]
                   ELSE bs
    /\ UNCHANGED <<program, downstreamVars, amountVars, classifyVars, n_updates, generatorVars,
                   excelVars>>

\* lines 128-131
ValidateBalance ==
    /\ program = "temp_bl"
    /\ ret' = LET totals == get_totals(bs)
              IN [op |-> "validate_balance", exc |-> totals.exc,
                  val |-> totals.exc = "none" /\ totals.balanced.y2024
                            /\ totals.balanced.y2023,
                  totals |-> NoTotals]
    /\ UNCHANGED <<program, downstreamVars, amountVars, classifyVars, bs, n_updates, generatorVars,
                   excelVars>>

GenCategories ==
    { "Shareholders' funds", "Share application money pending allotment",
      "Non-Current liabilities", "Current liabilities", "Non-current assets",
      "Current assets", "Other" }

GenValues == {<<10, 10>>, <<5, 0>>, <<15, 5>>}

GenItems ==
    { [category |-> c, value_2024 |-> v[1], value_2023 |-> v[2]] :
        c \in GenCategories, v \in GenValues }

InitGenerator ==
    /\ program = "bs_generator"
    /\ gen_items \in SeqsUpTo(GenItems, MaxItems)
    /\ gen_out = NoGenOut
    /\ SheetAtRest
    /\ ExcelAtRest

CalculateTotals ==
    /\ program = "bs_generator"
    /\ gen_out' = [NoGenOut EXCEPT !.stage = "totals",
                                   !.totals = calculate_totals(gen_items)]
    /\ UNCHANGED <<program, downstreamVars, amountVars, classifyVars, sheetVars, gen_items, excelVars>>

\* process, lines 672-679
ProcessBalanceCheck ==
    /\ program = "bs_generator"
    /\ gen_out.stage = "totals"
    /\ gen_out' =
         [gen_out EXCEPT
            !.stage = "checked",
            !.is_balanced =
               [y2024 |-> process_is_balanced(gen_out.totals.balance_difference.y2024),
                y2023 |-> process_is_balanced(gen_out.totals.balance_difference.y2023)]]
    /\ UNCHANGED <<program, downstreamVars, amountVars, classifyVars, sheetVars, gen_items, excelVars>>

TangibleAssets ==
    <<"T", "a", "n", "g", "i", "b", "l", "e", " ", "a", "s", "s", "e", "t", "s">>

LongTermLoans ==
    <<"L", "o", "n", "g", " ", "t", "e", "r", "m", " ", "l", "o", "a", "n", "s">>

ExcelLists ==
    { <<>>,
      << [label |-> TangibleAssets, value_2024 |-> 10, value_2023 |-> 10] >>,
      << [label |-> TangibleAssets, value_2024 |-> 15, value_2023 |-> 5],
         [label |-> LongTermLoans, value_2024 |-> 5, value_2023 |-> 0] >> }

InitExcel ==
    /\ program = "bl_llm1"
    /\ financial_data \in
         [{"shareholders_funds", "non_current_liabilities", "current_liabilities",
           "non_current_assets", "current_assets"} -> ExcelLists]
    /\ excel_out = NoExcelOut
    /\ SheetAtRest
    /\ GeneratorAtRest

\* wb.save succeeded: the summary with the two balance checks is printed
GenerateBalanceSheetExcel ==
    /\ program = "bl_llm1"
    /\ excel_out.stage = "none"
    /\ excel_out' =
         LET t == excel_totals(financial_data)
         IN [stage |-> "saved", totals |-> t,
             check |-> [y2024 |-> balance_check(t.total_assets.y2024, t.total_eq_liab.y2024),
                        y2023 |-> balance_check(t.total_assets.y2023, t.total_eq_liab.y2023)]]
    /\ UNCHANGED <<program, downstreamVars, amountVars, classifyVars, sheetVars, generatorVars,
                   financial_data>>

\* wb.save raised: the error is printed and None returned
SaveFailed ==
    /\ program = "bl_llm1"
    /\ excel_out.stage = "none"
    /\ excel_out' = [NoExcelOut EXCEPT !.stage = "save_failed",
                                       !.totals = excel_totals(financial_data)]
    /\ UNCHANGED <<program, downstreamVars, amountVars, classifyVars, sheetVars, generatorVars,
                   financial_data>>

InitAggregate ==
    /\ AmountAtRest
    /\ ClassifyAtRest
    /\ DownstreamAtRest
    /\ InitSheet \/ InitGenerator \/ InitExcel

NextAggregate ==
    \/ UpdateItem
    \/ GetTotals
    \/ ValidateBalance
    \/ CalculateTotals
    \/ ProcessBalanceCheck
    \/ GenerateBalanceSheetExcel
    \/ SaveFailed

SpecAggregate == InitAggregate /\ [][NextAggregate]_vars

(***************************************************************************)
(* Properties of the aggregators                                           *)
(***************************************************************************)
Year(r, y) == IF y = "2024" THEN r.y2024 ELSE r.y2023

Distance(a, b) == IF a >= b THEN a - b ELSE b - a

TotalsReturned == ret.op = "get_totals" /\ ret.exc = "none"

\* C5: for each year a balance sheet is reported balanced exactly when
\* total assets and total equity and liabilities differ by less than 0.01
\* (10 thousandths); a difference of exactly 0.01 is not balanced
C5_BalancedIffWithinTolerance ==
    \A y \in Years :
        /\ TotalsReturned =>
             (Year(ret.totals.balanced, y) <=>
                Distance(Year(ret.totals.total_assets, y),
                         Year(ret.totals.total_equity_liabilities, y)) < 10)
        /\ gen_out.stage = "checked" =>
             (Year(gen_out.is_balanced, y) <=>
                Distance(Year(gen_out.totals.total_assets, y),
                         Year(gen_out.totals.total_equity_liabilities, y)) < 10)
        /\ excel_out.stage = "saved" =>
             /\ Year(excel_out.check, y) \in {"BALANCED", "NOT BALANCED"}
             /\ (Year(excel_out.check, y) = "BALANCED" <=>
                   Distance(Year(excel_out.totals.total_assets, y),
                            Year(excel_out.totals.total_eq_liab, y)) < 10)

\* a difference of exactly 0.01 in 2024, reported as not balanced, next to
\* a difference of 0.005 in 2023, reported as balanced
C5_Witness ==
    /\ TotalsReturned
    /\ ret.totals.total_assets.y2024 - ret.totals.total_equity_liabilities.y2024 = 10
    /\ ~ret.totals.balanced.y2024
    /\ ret.totals.total_assets.y2023 - ret.totals.total_equity_liabilities.y2023 = 5
    /\ ret.totals.balanced.y2023

ItemValue(k, y) == Year(bs.items[k], y)

RECURSIVE ChildrenSum(_)
ChildrenSum(f) ==
    IF DOMAIN f = {} THEN 0
    ELSE LET x == CHOOSE e \in DOMAIN f : TRUE
         IN f[x] + ChildrenSum([e \in DOMAIN f \ {x} |-> f[e]])

SetSum(S, v(_)) == ChildrenSum([e \in S |-> v(e)])

ItemsOf(category) == {k \in ItemKeys : k[1] = category}

GenValue(i, y) == Year([y2024 |-> gen_items[i].value_2024,
                        y2023 |-> gen_items[i].value_2023], y)

GenItemsOf(category) == {i \in 1..Len(gen_items) : gen_items[i].category = category}

\* C6: in the totals returned by get_totals and by calculate_totals every
\* total is the sum of its direct children, for each year: a category is
\* the sum of its items, non-current assets is fixed assets plus the other
\* non-current items, total assets is non-current plus current assets, and
\* total equity and liabilities is the sum of its sections
C6_ParentIsSumOfChildren ==
    \A y \in Years :
        LET item(k) == ItemValue(k, y)
            gen(i) == GenValue(i, y)
            t == ret.totals
            g == gen_out.totals
        IN /\ TotalsReturned =>
                /\ Year(t.shareholders_funds, y) = SetSum(ItemsOf("Shareholders' funds"), item)
                /\ Year(t.non_current_liabilities, y) =
                       SetSum(ItemsOf("Non-Current liabilities"), item)
                /\ Year(t.current_liabilities, y) = SetSum(ItemsOf("Current liabilities"), item)
                /\ Year(t.current_assets, y) = SetSum(ItemsOf("Current assets"), item)
                /\ Year(t.non_current_assets, y) =
                       SetSum(ItemsOf("Fixed assets"), item)
                         + SetSum(ItemsOf("Non-current assets"), item)
                /\ Year(t.total_assets, y) =
                       Year(t.non_current_assets, y) + Year(t.current_assets, y)
                /\ Year(t.total_equity_liabilities, y) =
                       Year(t.shareholders_funds, y)
                         + Year(t.non_current_liabilities, y)
                         + Year(t.current_liabilities, y)
           /\ gen_out.stage # "none" =>
                /\ Year(g.shareholders_funds, y) =
                       SetSum(GenItemsOf("Shareholders' funds"), gen)
                /\ Year(g.share_application_money, y) =
                       SetSum(GenItemsOf("Share application money pending allotment"), gen)
                /\ Year(g.non_current_liabilities, y) =
                       SetSum(GenItemsOf("Non-Current liabilities"), gen)
                /\ Year(g.current_liabilities, y) =
                       SetSum(GenItemsOf("Current liabilities"), gen)
                /\ Year(g.non_current_assets, y) =
                       SetSum(GenItemsOf("Non-current assets"), gen)
                /\ Year(g.current_assets, y) = SetSum(GenItemsOf("Current assets"), gen)
                /\ Year(g.total_assets, y) =
                       Year(g.non_current_assets, y) + Year(g.current_assets, y)
                /\ Year(g.total_equity_liabilities, y) =
                       Year(g.shareholders_funds, y)
                         + Year(g.share_application_money, y)
                         + Year(g.non_current_liabilities, y)
                         + Year(g.current_liabilities, y)

\* totals returned after two updates, one of a fixed asset and one of
\* another non-current asset
C6_Witness ==
    /\ TotalsReturned
    /\ n_updates = 2
    /\ bs.items[<<"Fixed assets", "Tangible assets">>].y2024 = 15
    /\ bs.items[<<"Non-current assets", "Capital Work in progress">>].y2024 = 5
    /\ ret.totals.non_current_assets.y2024 = 20
    /\ ret.totals.total_assets.y2024 = 20

(***************************************************************************)
(* The note steps that take trial balance entries: calculate_note          *)
(* (main4.py), classify_accounts_by_note (note_temp_llm2.py),              *)
(* filter_accounts_by_group (main3.py) and validate_input_data             *)
(* (note_temp_llm.py).  An entry is a dict [account_name, group, amount,   *)
(* date]; its amount is a number, a string or None; of its date only what  *)
(* validate_input_data asks is kept: absent, "%Y-%m-%d" or anything else.  *)
(* Python passes the dicts by reference, so what a step assigns to an      *)
(* entry is assigned in tb_data.                                           *)
(***************************************************************************)
NumAmt(r) == [kind |-> "num", s |-> <<>>, r |-> r]

StrAmt(s) == [kind |-> "str", s |-> s, r |-> Zero]

NoAmt == [kind |-> "none", s |-> <<>>, r |-> Zero]

Add(a, b) == Sub(a, Neg(b))

\* main3.py lines 16-23 and main4.py lines 6-12
clean_value(value) ==
    IF value.kind = "none" THEN Zero
    ELSE IF value.kind = "num" THEN value.r
    ELSE LET t == strip(remove(value.s, <<",">>))
         IN IF t = <<>> \/ float(t).exc = "ValueError" THEN Zero ELSE float(t)

\* any(kw.lower() in account_name for kw in keywords)
any_in(keywords, name) ==
    \E k \in 1..Len(keywords) : contains(name, lower(keywords[k]))

\* the condition of main4.py line 46 without its exclude part
note_row_matches_NoExclude(name, keywords, exclude) ==
    any_in(keywords, name)

\* main4.py line 46
note_row_matches(name, keywords, exclude) ==
    /\ any_in(keywords, name)
    /\ (exclude = <<>> \/ ~any_in(exclude, name))

\* main4.py lines 41-56: the total and the matched accounts
RECURSIVE calculate_note(_, _, _)
calculate_note(df, keywords, exclude) ==
    IF df = <<>> THEN [total |-> Zero, matched_accounts |-> <<>>]
    ELSE LET row == df[Len(df)]
             before == calculate_note(SubSeq(df, 1, Len(df) - 1), keywords, exclude)
             amt == clean_value(row.amount)
         IN IF note_row_matches(lower(strip(row.account_name)), keywords, exclude)
            THEN [total |-> Add(before.total, amt),
                  matched_accounts |->
                      Append(before.matched_accounts,
                             [account |-> row.account_name, amount |-> amt])]
            ELSE before

\* note_temp_llm2.py lines 211-222
RECURSIVE classify_accounts_by_note(_, _)
classify_accounts_by_note(accounts, patterns) ==
    IF accounts = <<>> THEN <<>>
    ELSE LET account == accounts[Len(accounts)]
             before == classify_accounts_by_note(SubSeq(accounts, 1, Len(accounts) - 1),
                                                 patterns)
             name == lower(account.account_name)
             keyword_match == any_in(patterns.keywords, name)
             group_match == \E g \in 1..Len(patterns.groups) :
                                patterns.groups[g] = account.group
         IN IF any_in(patterns.exclude, name) THEN before
            ELSE IF keyword_match \/ group_match THEN Append(before, account)
            ELSE before

\* main3.py line 55: the entry after account['amount'] = clean_value(...)
cleaned(account) == [account EXCEPT !.amount = NumAmt(clean_value(@))]

\* main3.py lines 49-63: the entries as the loop leaves them, and the list
\* it returns
RECURSIVE filter_accounts_by_group(_, _)
filter_accounts_by_group(data, target_group) ==
    IF data = <<>> THEN [tb_data |-> <<>>, filtered_accounts |-> <<>>]
    ELSE LET account == cleaned(data[Len(data)])
             before == filter_accounts_by_group(SubSeq(data, 1, Len(data) - 1),
                                                target_group)
             account_group == strip(account.group)
         IN [tb_data |-> Append(before.tb_data, account),
             filtered_accounts |->
                 IF contains(lower(account_group), lower(target_group))
                 THEN Append(before.filtered_accounts, account)
                 ELSE before.filtered_accounts]

\* note_temp_llm.py lines 478-497 for one entry: the exception raised, or
\* "none", and the entry as it is left
validate_entry(entry) ==
    IF entry.date = "absent" THEN [exc |-> "ValueError", entry |-> entry]
    ELSE IF entry.amount.kind = "none" THEN [exc |-> "TypeError", entry |-> entry]
    ELSE IF entry.amount.kind = "str" /\ float(strip(entry.amount.s)).exc # "none"
    THEN [exc |-> "ValueError", entry |-> entry]
    ELSE LET converted ==
                 IF entry.amount.kind = "str"
                 THEN [entry EXCEPT !.amount = NumAmt(float(strip(entry.amount.s)))]
                 ELSE entry
         IN [exc |-> IF entry.date = "iso" THEN "none" ELSE "ValueError",
             entry |-> converted]

\* note_temp_llm.py lines 465-499: the loop stops at the first exception
RECURSIVE validate_input_data(_)
validate_input_data(data) ==
    IF data = <<>> THEN [exc |-> "none", tb_data |-> <<>>, validated_data |-> <<>>]
    ELSE LET before == validate_input_data(SubSeq(data, 1, Len(data) - 1))
             entry == data[Len(data)]
             v == validate_entry(entry)
         IN IF before.exc # "none"
            THEN [before EXCEPT !.tb_data = Append(@, entry)]
            ELSE [exc |-> v.exc,
                  tb_data |-> Append(before.tb_data, v.entry),
                  validated_data |-> IF v.exc = "none"
                                     THEN Append(before.validated_data, v.entry)
                                     ELSE before.validated_data]

MaxEntries == 2

CashInHand == <<"C", "a", "s", "h", " ", "i", "n", " ", "H", "a", "n", "d", " ">>

BankLoan == <<"B", "a", "n", "k", " ", "L", "o", "a", "n">>

AdvanceTax == <<"A", "d", "v", "a", "n", "c", "e", " ", "T", "a", "x">>

CurrentAssets == <<"C", "u", "r", "r", "e", "n", "t", " ", "A", "s", "s", "e", "t", "s">>

Borrowings == <<"B", "o", "r", "r", "o", "w", "i", "n", "g", "s">>

SampleEntries ==
    { [account_name |-> CashInHand, group |-> CurrentAssets,
       amount |-> StrAmt(<<"1", ",", "2", "3", "4", ".", "5">>), date |-> "iso"],
      [account_name |-> BankLoan, group |-> Borrowings,
       amount |-> NumAmt(Normalize(100, 0)), date |-> "iso"],
      [account_name |-> AdvanceTax, group |-> CurrentAssets \o <<" ">>,
       amount |-> StrAmt(<<"7">>), date |-> "other"],
      [account_name |-> BankLoan, group |-> Borrowings,
       amount |-> StrAmt(<<"n", "i", "l">>), date |-> "iso"],
      [account_name |-> AdvanceTax, group |-> CurrentAssets,
       amount |-> NoAmt, date |-> "absent"] }

\* note 13 of account_patterns (note_temp_llm2.py lines 141-145), cut down,
\* and the same without exclusions
SampleNotes ==
    { [keywords |-> <<<<"c", "a", "s", "h">>, <<"b", "a", "n", "k">>>>, exclude |-> <<<<"a", "d", "v", "a", "n", "c", "e">>, <<"l", "o", "a", "n">>>>,
       groups |-> <<CurrentAssets>>, target_group |-> <<"c", "u", "r", "r", "e", "n", "t">>],
      [keywords |-> <<<<"c", "a", "s", "h">>, <<"b", "a", "n", "k">>>>, exclude |-> <<>>,
       groups |-> <<>>, target_group |-> <<"b", "o", "r", "r", "o", "w">>],
      [keywords |-> <<<<"T", "a", "x">>>>, exclude |-> <<<<"B", "a", "n", "k">>>>,
       groups |-> <<Borrowings>>, target_group |-> <<"c", "u", "r", "r", "e", "n", "t">>],
      [keywords |-> <<>>, exclude |-> <<>>,
       groups |-> <<CurrentAssets>>, target_group |-> <<>>] }

InitNotes ==
    /\ program = "notes"
    /\ tb_data \in SeqsUpTo(SampleEntries, MaxEntries)
    /\ note_in \in SampleNotes
    /\ note_out = NoNoteOut
    /\ report = NoReport
    /\ LaterAtRest
    /\ AmountAtRest
    /\ ClassifyAtRest
    /\ AggregateAtRest

CalculateNote ==
    /\ program = "notes"
    /\ note_out' =
         LET r == calculate_note(tb_data, note_in.keywords, note_in.exclude)
         IN [fn |-> "calculate_note", exc |-> "none",
             accounts |-> r.matched_accounts, total |-> r.total]
    /\ UNCHANGED <<program, amountVars, classifyVars, aggregateVars, report,
                   laterVars, tb_data, note_in>>

ClassifyAccountsByNote ==
    /\ program = "notes"
    /\ note_out' = [fn |-> "classify_accounts_by_note", exc |-> "none",
                    accounts |-> classify_accounts_by_note(tb_data, note_in),
                    total |-> Zero]
    /\ UNCHANGED <<program, amountVars, classifyVars, aggregateVars, report,
                   laterVars, tb_data, note_in>>

FilterAccountsByGroup ==
    /\ program = "notes"
    /\ LET r == filter_accounts_by_group(tb_data, note_in.target_group)
       IN /\ tb_data' = r.tb_data
          /\ note_out' = [fn |-> "filter_accounts_by_group", exc |-> "none",
                          accounts |-> r.filtered_accounts, total |-> Zero]
    /\ UNCHANGED <<program, amountVars, classifyVars, aggregateVars, report, laterVars,
                   note_in>>

ValidateInputData ==
    /\ program = "notes"
    /\ LET r == validate_input_data(tb_data)
       IN /\ tb_data' = r.tb_data
          /\ note_out' = [fn |-> "validate_input_data", exc |-> r.exc,
                          accounts |-> IF r.exc = "none" THEN r.validated_data
                                       ELSE <<>>,
                          total |-> Zero]
    /\ UNCHANGED <<program, amountVars, classifyVars, aggregateVars, report, laterVars,
                   note_in>>

NextNotes ==
    \/ CalculateNote
    \/ ClassifyAccountsByNote
    \/ FilterAccountsByGroup
    \/ ValidateInputData

SpecNotes == InitNotes /\ [][NextNotes]_vars

(***************************************************************************)
(* Properties of the note steps                                            *)
(***************************************************************************)
KeywordPresent(name) ==
    \E k \in 1..Len(note_in.keywords) : contains(lower(name), lower(note_in.keywords[k]))

ExcludePresent(name) ==
    \E x \in 1..Len(note_in.exclude) : contains(lower(name), lower(note_in.exclude[x]))

MatchedNames ==
    IF note_out.fn = "calculate_note"
    THEN {note_out.accounts[j].account : j \in 1..Len(note_out.accounts)}
    ELSE {note_out.accounts[j].account_name : j \in 1..Len(note_out.accounts)}

\* C12: an account whose name holds a keyword of the note and also one of
\* the note's exclude substrings is not matched by calculate_note nor by
\* classify_accounts_by_note, while an account with a keyword and no
\* exclude substring is
C12_ExcludeSkipsRule ==
    note_out.fn \in {"calculate_note", "classify_accounts_by_note"}
    => \A i \in 1..Len(tb_data) :
          LET name == tb_data[i].account_name IN
          /\ (KeywordPresent(name) /\ ExcludePresent(name)) => name \notin MatchedNames
          /\ (KeywordPresent(name) /\ ~ExcludePresent(name)) => name \in MatchedNames

C12_Witness ==
    /\ note_out.fn = "calculate_note"
    /\ Len(tb_data) = 2
    /\ tb_data[1].account_name = CashInHand
    /\ tb_data[2].account_name = BankLoan
    /\ KeywordPresent(BankLoan) /\ ExcludePresent(BankLoan)
    /\ MatchedNames = {CashInHand}

(***************************************************************************)
(* Further properties of the classifier                                    *)
(***************************************************************************)
\* the keyword occurs in the name between two word boundaries, letter case
\* apart
WholeWordOccurs(keyword, name) ==
    LET k == lower(keyword)
        s == lower(name)
    IN \E i \in 1..Len(s) :
          /\ startswithAt(s, i, k)
          /\ WordBoundary(s, i - 1)
          /\ WordBoundary(s, i + Len(k) - 1)

WholeWordHit(r) ==
    \E j \in 1..Len(cfg.keyword_rules[r].keywords) :
        WholeWordOccurs(cfg.keyword_rules[r].keywords[j], account_name)

\* C13: when classify_account returns, every keyword rule it checked was
\* taken as matching exactly when one of the rule's keywords occurs in the
\* account name as a whole word, letter case apart, a keyword of several
\* words included
C13_Counterexample ==
    pc = "classified"
    => \A p \in 1..Len(trace) :
          trace[p].tier = "keyword"
          => ((p = Len(trace) /\ result.mapped_by = "rules.json")
              <=> WholeWordHit(trace[p].i))

\* C14: two records of one run that carry the same account name carry the
\* same group and the same mapped_by, whichever tier classified them
C14_Counterexample ==
    \A i, j \in 1..Len(structured_data) :
        structured_data[i].account_name = structured_data[j].account_name
        => /\ structured_data[i].group = structured_data[j].group
           /\ structured_data[i].mapped_by = structured_data[j].mapped_by

(***************************************************************************)
(* Further properties of the aggregators                                   *)
(***************************************************************************)
\* C15: the balance difference that calculate_totals reports for a year is
\* total assets minus total equity and liabilities of that year, sign kept
C15_Counterexample ==
    gen_out.stage \in {"totals", "checked"}
    => \A y \in Years :
          Year(gen_out.totals.balance_difference, y) =
              Year(gen_out.totals.total_assets, y)
              - Year(gen_out.totals.total_equity_liabilities, y)

C17_CheckOnlyReports ==
    [][ /\ ret'.op \in {"get_totals", "validate_balance"} => bs' = bs
        /\ gen_out'.stage \in {"totals", "checked"} => gen_items' = gen_items
        /\ gen_out'.stage = "checked" => gen_out'.totals = gen_out.totals ]_vars

\* validate_balance has answered False for a sheet that was updated
C17_Witness ==
    /\ ret.op = "validate_balance"
    /\ ret.exc = "none"
    /\ ~ret.val
    /\ bs.items[<<"Shareholders' funds", "Share capital">>].note = "2"
    /\ bs.items[<<"Shareholders' funds", "Share capital">>].y2024 = 10

\* C18: every request sent to the external classifier carries a timeout,
\* and a request that failed is sent again before the entry is given up as
\* Unmapped
C18_Counterexample ==
    /\ requests # <<>> => "timeout" \in post_kwargs
    /\ (pc = "classified" /\ trace # <<>> /\ trace[Len(trace)].tier = "llm"
          /\ response.kind # "content")
         => \E i, j \in 1..Len(requests) :
               i # j /\ requests[i] = account_name /\ requests[j] = account_name

NonBlankRows ==
    {i \in 1..Len(rows) :
        /\ Len(rows[i]) > 0
        /\ rows[i][1].kind # "none"
        /\ strip(rows[i][1].s) # <<>>}

\* C19: when extract_trial_balance_data returns, it has produced one record
\* for each row whose account name is not blank, in the order of the rows,
\* and none for the other rows
C19_Counterexample ==
    pc \in {"done", "saved"}
    => /\ Len(structured_data) = Cardinality(NonBlankRows)
       /\ \A k \in 1..Len(structured_data) :
             \E i \in NonBlankRows :
                 /\ structured_data[k].account_name = strip(rows[i][1].s)
                 /\ Cardinality({j \in NonBlankRows : j <= i}) = k

(***************************************************************************)
(* Further properties of the note steps                                    *)
(***************************************************************************)
\* C20: no note step changes a field of an entry of the trial balance data
\* it was given
C20_Counterexample == [][tb_data' = tb_data]_vars

(***************************************************************************)
(* bl_llm1.py: call_openrouter_api.  One invocation posts the payload with *)
(* the model it was given and, if that fails, with each of the three       *)
(* fallback models in turn.  A request succeeds when neither requests.post *)
(* nor raise_for_status nor response.json() nor the subscripts raise; any  *)
(* exception is caught by except Exception.                                *)
(***************************************************************************)
\* lines 91-95
fallback_models ==
    << "anthropic/claude-3-sonnet", "openai/gpt-4-turbo",
       "meta-llama/llama-3.1-70b-instruct" >>

\* the default of the parameter model (line 69) and a model the caller names
ApiModels == {"mistralai/mixtral-8x7b-instruct", "openai/gpt-4-turbo"}

\* what a request can come to: a body with a content, an error status, an
\* exception of the transport or the timeout, a body without choices
ApiResponses ==
    { [kind |-> "content", content |-> "{...}"],
      [kind |-> "content", content |-> "sorry"],
      [kind |-> "http_error", content |-> ""],
      [kind |-> "exception", content |-> ""],
      [kind |-> "no_choices", content |-> ""] }

\* lines 85-88 and 101-104: no statement of the try block raised
post_succeeded(r) == r.kind = "content"

InitApi ==
    /\ program = "bl_llm1"
    /\ \E model \in ApiModels : api = [NoApi EXCEPT !.pc = "primary", !.model = model]
    /\ bs2 = NoSheet2
    /\ call = NoCall
    /\ report = NoReport
    /\ NotesAtRest
    /\ AmountAtRest
    /\ ClassifyAtRest
    /\ AggregateAtRest

\* lines 84-88
PostPrimary ==
    /\ program = "bl_llm1"
    /\ api.pc = "primary"
    /\ \E r \in ApiResponses :
          api' = [api EXCEPT !.sent = Append(@, api.model),
                             !.responses = Append(@, r),
                             !.pc = IF post_succeeded(r) THEN "returned" ELSE "fallback",
                             !.content = IF post_succeeded(r) THEN r.content ELSE @]
    /\ UNCHANGED <<program, amountVars, classifyVars, aggregateVars, report, notesVars,
                   bs2, call>>

\* the fallback loop with line 105 missing: a success is noted and the loop
\* goes on
PostFallback_NoReturn ==
    /\ program = "bl_llm1"
    /\ api.pc = "fallback"
    /\ Len(api.sent) < 1 + Len(fallback_models)
    /\ \E r \in ApiResponses :
          api' = [api EXCEPT !.sent = Append(@, fallback_models[Len(api.sent)]),
                             !.responses = Append(@, r),
                             !.content = IF post_succeeded(r) THEN r.content ELSE @]
    /\ UNCHANGED <<program, amountVars, classifyVars, aggregateVars, report, notesVars,
                   bs2, call>>

\* lines 97-108: one iteration of the loop over fallback_models
PostFallback ==
    /\ program = "bl_llm1"
    /\ api.pc = "fallback"
    /\ Len(api.sent) < 1 + Len(fallback_models)
    /\ \E r \in ApiResponses :
          api' = [api EXCEPT !.sent = Append(@, fallback_models[Len(api.sent)]),
                             !.responses = Append(@, r),
                             !.pc = IF post_succeeded(r) THEN "returned" ELSE "fallback",
                             !.content = IF post_succeeded(r) THEN r.content ELSE @]
    /\ UNCHANGED <<program, amountVars, classifyVars, aggregateVars, report, notesVars,
                   bs2, call>>

\* line 110
RaiseAllFailed ==
    /\ program = "bl_llm1"
    /\ api.pc = "fallback"
    /\ Len(api.sent) = 1 + Len(fallback_models)
    /\ api' = [api EXCEPT !.pc = "raised", !.content = "All API models failed"]
    /\ UNCHANGED <<program, amountVars, classifyVars, aggregateVars, report, notesVars,
                   bs2, call>>

NextApi ==
    \/ PostPrimary
    \/ PostFallback
    \/ RaiseAllFailed

SpecApi == InitApi /\ [][NextApi]_vars

(***************************************************************************)
(* Properties of call_openrouter_api                                       *)
(***************************************************************************)
ModelOrder ==
    << api.model, "anthropic/claude-3-sonnet", "openai/gpt-4-turbo",
       "meta-llama/llama-3.1-70b-instruct" >>

\* C21: an invocation of call_openrouter_api sends at most four requests,
\* to the model it was given and then to claude-3-sonnet, gpt-4-turbo and
\* llama-3.1-70b-instruct in that order; no request follows a request that
\* succeeded; it returns the content of the request that succeeded, and it
\* raises 'All API models failed' only when four requests have failed
C21_FallbackOrder ==
    /\ Len(api.sent) <= 4
    /\ Len(api.responses) = Len(api.sent)
    /\ \A i \in 1..Len(api.sent) : api.sent[i] = ModelOrder[i]
    /\ \A i \in 1..(Len(api.sent) - 1) : api.responses[i].kind # "content"
    /\ api.pc = "returned" =>
          /\ api.responses[Len(api.responses)].kind = "content"
          /\ api.content = api.responses[Len(api.responses)].content
    /\ api.pc = "raised" =>
          /\ Len(api.sent) = 4
          /\ \A i \in 1..4 : api.responses[i].kind # "content"
          /\ api.content = "All API models failed"
    /\ (Len(api.sent) > 0 /\ api.responses[Len(api.responses)].kind = "content")
          => api.pc = "returned"

\* the primary model and claude-3-sonnet failed, gpt-4-turbo answered
C21_Witness ==
    /\ api.pc = "returned"
    /\ api.sent = << "mistralai/mixtral-8x7b-instruct", "anthropic/claude-3-sonnet",
                     "openai/gpt-4-turbo" >>
    /\ api.responses[1].kind = "exception"
    /\ api.responses[2].kind = "http_error"
    /\ api.content = "sorry"

(***************************************************************************)
(* temp_bl.py with two BalanceSheet objects a and b.  bs is a's state and  *)
(* bs2.sheet is b's.  from_dict assigns the dictionaries it is given       *)
(* (lines 146-149) and to_dict hands out a's own dictionaries (lines       *)
(* 136-138), so after b.from_dict(a.to_dict()) both objects hold the same  *)
(* dictionaries: bs2.loaded, and what either writes the other reads.  The  *)
(* update_item calls made here carry numbers only.                         *)
(***************************************************************************)
\* the addresses of lines 186, 194-197 and 199 of the example, and the
\* "Fixed assets" dictionary
ExampleAddresses ==
    { <<"equity_liabilities", "Shareholders' funds", "Share capital">>,
      <<"assets", "Non-current assets", "Tangible assets">>,
      <<"assets", "Non-current assets", "Intangible assets">>,
      <<"assets", "Capital Work in progress", "Capital Work in progress">>,
      <<"assets", "Long Term Loans and Advances", "Long Term Loans and Advances">>,
      <<"assets", "Current assets", "Inventories">>,
      <<"assets", "Non-current assets", "Fixed assets">> }

NumericArguments ==
    { <<Note("9"), Num(10), Num(5)>>,
      <<NoNote, Num(15), None>> }

SheetOf(obj) == IF obj = "a" THEN bs ELSE bs2.sheet

InitSheets ==
    /\ program = "temp_bl_objects"
    /\ bs = NewBalanceSheet
    /\ n_updates = 0
    /\ ret = NoReturn
    /\ bs2 = NoSheet2
    /\ call = NoCall
    /\ api = NoApi
    /\ GeneratorAtRest
    /\ ExcelAtRest
    /\ report = NoReport
    /\ NotesAtRest
    /\ AmountAtRest
    /\ ClassifyAtRest

\* obj.update_item(section, category, item, note, val_2024, val_2023)
UpdateItemOf ==
    /\ program = "temp_bl_objects"
    /\ n_updates < MaxUpdates
    /\ \E obj \in {"a", "b"}, a \in ExampleAddresses, g \in NumericArguments :
          LET after == update_item_state(SheetOf(obj), a[1], a[2], a[3], g[1], g[2], g[3])
          IN /\ bs' = IF obj = "a" \/ bs2.loaded THEN after ELSE bs
             /\ bs2' = IF obj = "b" \/ bs2.loaded THEN [bs2 EXCEPT !.sheet = after]
                       ELSE bs2
             /\ call' = [fn |-> "update_item", arg |-> <<obj, a, g>>,
                         out |-> update_item_return(a[1], a[2], a[3], g[1], g[2], g[3])]
    /\ n_updates' = n_updates + 1
    /\ UNCHANGED <<program, amountVars, classifyVars, ret, generatorVars, excelVars,
                   report, notesVars, api>>

\* b.from_dict(a.to_dict()); to_dict calls get_totals (line 139)
FromDict ==
    /\ program = "temp_bl_objects"
    /\ IF get_totals(bs).exc # "none"
       THEN /\ call' = [fn |-> "from_dict", arg |-> <<"b", "a">>,
                        out |-> get_totals(bs).exc]
            /\ UNCHANGED bs2
       ELSE /\ call' = [fn |-> "from_dict", arg |-> <<"b", "a">>, out |-> "None"]
            /\ bs2' = [loaded |-> TRUE, sheet |-> bs]
    /\ UNCHANGED <<program, amountVars, classifyVars, bs, n_updates, ret, generatorVars,
                   excelVars, report, notesVars, api>>

\* obj.get_totals()
GetTotalsOf ==
    /\ program = "temp_bl_objects"
    /\ \E obj \in {"a", "b"} :
          call' = [fn |-> "get_totals", arg |-> <<obj>>, out |-> get_totals(SheetOf(obj))]
    /\ UNCHANGED <<program, amountVars, classifyVars, bs, n_updates, ret, generatorVars,
                   excelVars, report, notesVars, api, bs2>>

NextSheets ==
    \/ UpdateItemOf
    \/ FromDict
    \/ GetTotalsOf

SpecSheets == InitSheets /\ [][NextSheets]_vars

(***************************************************************************)
(* Properties of the BalanceSheet objects                                  *)
(***************************************************************************)
\* C22: get_totals, called after update_item calls with numeric values on
\* fresh sheets, returns totals and does not raise
C22_Counterexample ==
    call.fn = "get_totals" => call.out.exc = "none"

\* C23: an update_item call that returns False or raises leaves every item
\* as it was; a call that returns True changes at most one item and
\* nothing else of the sheet
C23_Counterexample ==
    [][ (ret'.op = "update_item" /\ n_updates' = n_updates + 1)
        => IF ret'.exc = "none" /\ ret'.val
           THEN /\ \E k \in ItemKeys :
                      \A j \in ItemKeys \ {k} : bs'.items[j] = bs.items[j]
                /\ bs'.fa_extra = bs.fa_extra
           ELSE bs' = bs ]_vars

ExampleAssetAddresses ==
    { <<"assets", "Non-current assets", "Tangible assets">>,
      <<"assets", "Non-current assets", "Intangible assets">>,
      <<"assets", "Capital Work in progress", "Capital Work in progress">>,
      <<"assets", "Long Term Loans and Advances", "Long Term Loans and Advances">> }

\* the item of the sheet that an address of the example names
ExampleItem(a) ==
    IF a[3] \in {"Tangible assets", "Intangible assets"}
    THEN <<"Fixed assets", a[3]>>
    ELSE <<"Non-current assets", a[3]>>

\* C24: update_item with an asset address of the example returns True and
\* the item named holds the note and the values given, so that
\* non_current_assets covers them
C24_Counterexample ==
    (call.fn = "update_item" /\ call.arg[2] \in ExampleAssetAddresses)
    => LET item == SheetOf(call.arg[1]).items[ExampleItem(call.arg[2])]
           g == call.arg[3]
       IN /\ call.out = "True"
          /\ g[1].kind # "none" => item.note = g[1].v
          /\ g[2].kind = "num" => item.y2024 = g[2].v
          /\ g[3].kind = "num" => item.y2023 = g[3].v
          /\ g[2].kind = "num" =>
                non_current_assets_total(SheetOf(call.arg[1]).items, "2024") >= g[2].v

\* C25: once b is loaded from a.to_dict(), an update_item on one of the two
\* objects leaves the items of the other, and with them its totals, as
\* they were
C25_Counterexample ==
    [][ (bs2.loaded /\ call'.fn = "update_item" /\ n_updates' = n_updates + 1)
        => IF call'.arg[1] = "b" THEN bs' = bs ELSE bs2'.sheet = bs2.sheet ]_vars

(***************************************************************************)
(* Functions of the later steps, each applied to an input drawn at the     *)
(* start: call holds the function waiting to be applied and its argument,  *)
(* then the function applied, its argument and its result.                 *)
(*                                                                         *)
(* calculate.py: a value inside company_financial_data is absent, a number *)
(* (NumAmt), a string (StrAmt), a list of values, or a dictionary with the *)
(* two year keys.                                                          *)
(***************************************************************************)
Absent == [kind |-> "absent"]

ListOf(items) == [kind |-> "list", items |-> items]

YearDict(current, previous) == [kind |-> "dict", current |-> current, previous |-> previous]

\* lines 35-40: the first int or float of the list, or the default
RECURSIVE first_number(_)
first_number(items) ==
    IF items = <<>> THEN NumAmt(Zero)
    ELSE IF Head(items).kind = "num" THEN Head(items)
    ELSE first_number(Tail(items))

\* lines 20-44 with the path already followed to current (absent when a
\* part of the path is missing); year is "current", "previous" or "" for
\* None; the default is 0
safe_get_value(current, year) ==
    IF current.kind = "absent" THEN NumAmt(Zero)
    ELSE IF year # "" /\ current.kind = "dict"
            /\ (IF year = "current" THEN current.current ELSE current.previous).kind
                 # "absent"
    THEN LET value == IF year = "current" THEN current.current ELSE current.previous
         IN IF value.kind = "num" THEN value
            ELSE IF value.kind = "str" /\ is_code_number(value.s)
                    /\ float(value.s).exc = "none"
            THEN NumAmt(float(value.s))
            ELSE NumAmt(Zero)
    ELSE IF current.kind = "num" THEN current
    ELSE IF current.kind = "list" /\ Len(current.items) > 0
    THEN first_number(current.items)
    ELSE NumAmt(Zero)

\* lines 57-64
tax_provision(provision) ==
    LET tax_provision_data == safe_get_value(provision, "")
    IN IF tax_provision_data.kind = "list" /\ Len(tax_provision_data.items) >= 2
       THEN [current |-> tax_provision_data.items[1].r,
             previous |-> tax_provision_data.items[2].r]
       ELSE [current |-> Normalize(17927262, 5), previous |-> Normalize(69225399, 5)]

\* lines 46-84
extract_profit_and_loss_data(data) ==
    LET both(v) == [current |-> safe_get_value(v, "current").r,
                    previous |-> safe_get_value(v, "previous").r]
        pat == both(data.profit_after_tax)
        tax == tax_provision(data.provision)
    IN [profit_after_tax |-> pat,
        tax_provision |-> tax,
        profit_before_tax |-> [current |-> Add(pat.current, tax.current),
                               previous |-> Add(pat.previous, tax.previous)],
        depreciation |-> both(data.depreciation),
        interest_income |-> both(data.interest_income)]

YearDicts ==
    { Absent,
      YearDict(NumAmt(Normalize(100, 0)), NumAmt(Normalize(50, 0))),
      YearDict(StrAmt(<<"1", "2", ".", "5">>), Absent) }

Provisions ==
    { Absent,
      ListOf(<< NumAmt(Normalize(200, 0)), NumAmt(Normalize(300, 0)) >>),
      ListOf(<< NumAmt(Normalize(200, 0)) >>),
      ListOf(<< StrAmt(<<"x">>), NumAmt(Normalize(7, 0)) >>),
      ListOf(<<>>),
      NumAmt(Normalize(5, 0)) }

FinancialInputs ==
    { [profit_after_tax |-> p, provision |-> t, depreciation |-> d,
       interest_income |-> d] :
        p \in YearDicts, t \in Provisions, d \in YearDicts }

(***************************************************************************)
(* note_temp_llm.py: categorize_account over the schedule_iii_mapping of   *)
(* the default configuration, a dict read in insertion order.              *)
(***************************************************************************)
Entry(keyword, note_num) == [keyword |-> keyword, note_num |-> note_num]

\* load_config, lines 58-82
schedule_iii_mapping ==
    << Entry(<<"s", "e", "c", "u", "r", "i", "t", "y", " ", "d", "e", "p", "o", "s", "i", "t", "s">>, "10"),
       Entry(<<"l", "o", "n", "g", " ", "t", "e", "r", "m">>, "10"),
       Entry(<<"a", "d", "v", "a", "n", "c", "e", "s">>, "10"),
       Entry(<<"d", "e", "p", "o", "s", "i", "t", "s">>, "10"),
       Entry(<<"c", "o", "n", "s", "u", "m", "a", "b", "l", "e", "s">>, "11"),
       Entry(<<"i", "n", "v", "e", "n", "t", "o", "r", "y">>, "11"),
       Entry(<<"r", "a", "w", " ", "m", "a", "t", "e", "r", "i", "a", "l", "s">>, "11"),
       Entry(<<"f", "i", "n", "i", "s", "h", "e", "d", " ", "g", "o", "o", "d", "s">>, "11"),
       Entry(<<"w", "o", "r", "k", " ", "i", "n", " ", "p", "r", "o", "g", "r", "e", "s", "s">>, "11"),
       Entry(<<"s", "t", "o", "r", "e", "s">>, "11"),
       Entry(<<"c", "a", "s", "h">>, "12"),
       Entry(<<"b", "a", "n", "k">>, "12"),
       Entry(<<"t", "r", "a", "d", "e", " ", "r", "e", "c", "e", "i", "v", "a", "b", "l", "e", "s">>, "13"),
       Entry(<<"d", "e", "b", "t", "o", "r", "s">>, "13"),
       Entry(<<"s", "h", "o", "r", "t", " ", "t", "e", "r", "m", " ", "l", "o", "a", "n", "s">>, "14"),
       Entry(<<"s", "h", "o", "r", "t", " ", "t", "e", "r", "m", " ", "a", "d", "v", "a", "n", "c", "e", "s">>, "14"),
       Entry(<<"o", "t", "h", "e", "r", " ", "c", "u", "r", "r", "e", "n", "t", " ", "a", "s", "s", "e", "t", "s">>, "15"),
       Entry(<<"p", "r", "e", "p", "a", "i", "d", " ", "e", "x", "p", "e", "n", "s", "e", "s">>, "15"),
       Entry(<<"t", "r", "a", "d", "e", " ", "p", "a", "y", "a", "b", "l", "e", "s">>, "16"),
       Entry(<<"c", "r", "e", "d", "i", "t", "o", "r", "s">>, "16"),
       Entry(<<"o", "t", "h", "e", "r", " ", "c", "u", "r", "r", "e", "n", "t", " ", "l", "i", "a", "b", "i", "l", "i", "t", "i", "e", "s">>, "17"),
       Entry(<<"p", "r", "o", "v", "i", "s", "i", "o", "n", "s">>, "18"),
       Entry(<<"e", "m", "p", "l", "o", "y", "e", "e", " ", "b", "e", "n", "e", "f", "i", "t", "s">>, "18") >>

\* lines 160-168
RECURSIVE categorize_account(_, _)
categorize_account(name, mapping) ==
    IF mapping = <<>> THEN "15"
    ELSE IF contains(lower(name), Head(mapping).keyword) THEN Head(mapping).note_num
    ELSE categorize_account(name, Tail(mapping))

\* every keyword of the mapping as an account name, and names of no keyword
AccountNames ==
    {schedule_iii_mapping[k].keyword : k \in 1..Len(schedule_iii_mapping)}
        \cup {<<"G", "o", "o", "d", "w", "i", "l", "l">>, <<"P", "e", "t", "t", "y", " ", "C", "a", "s", "h">>}

(***************************************************************************)
(* note_temp_llm2.py: the totals of a note.  round(x, 2) is taken on the   *)
(* decimal value; it agrees with Python's rounding of the float away from  *)
(* ties, and the amounts used here produce no tie.                         *)
(***************************************************************************)
round2(x) ==
    IF x.e <= 2 THEN x
    ELSE LET d == Pow10(x.e - 2)
             a == IF x.m < 0 THEN -x.m ELSE x.m
             q == a \div d
             r == a % d
             up == 2 * r > d \/ (2 * r = d /\ q % 2 = 1)
             n == IF up THEN q + 1 ELSE q
         IN Normalize(IF x.m < 0 THEN -n ELSE n, 2)

\* x / conversion_factor for the two factors used, 1 and 100000
DivideBy(x, conversion_factor) ==
    IF conversion_factor = 1 THEN x ELSE Normalize(x.m, x.e + 5)

\* lines 226-236
safe_amount_conversion(value, conversion_factor) ==
    LET cleaned_amount == SelectSeq(value.s, KeepDigitsDotMinus)
        amount_float ==
            IF value.kind = "str"
            THEN (IF cleaned_amount = <<>> THEN Zero ELSE float(cleaned_amount))
            ELSE IF value.kind = "none" THEN Zero ELSE value.r
    IN IF amount_float.exc # "none" THEN Zero
       ELSE round2(DivideBy(amount_float, conversion_factor))

\* lines 240-243 and 289-291: the running sum of the converted amounts
RECURSIVE total_amount_of(_)
total_amount_of(accounts) ==
    IF accounts = <<>> THEN Zero
    ELSE Add(total_amount_of(SubSeq(accounts, 1, Len(accounts) - 1)),
             safe_amount_conversion(accounts[Len(accounts)].amount, 1))

\* lines 238-245 (calculate_totals of note_temp_llm2.py)
note_calculate_totals(accounts) ==
    [total_amount |-> total_amount_of(accounts),
     total_lakhs |-> round2(DivideBy(total_amount_of(accounts), 100000))]

Note14Categories ==
    {"prepaid_expenses", "other_advances", "advance_tax", "statutory_balances",
     "uncategorized"}

any_word(words, name) == \E w \in 1..Len(words) : contains(name, words[w])

\* lines 261-275: the category of one account of note 14
category_of(name) ==
    IF contains(name, <<"p", "r", "e", "p", "a", "i", "d">>) THEN "prepaid_expenses"
    ELSE IF any_word(<< <<"a", "d", "v", "a", "n", "c", "e", " ", "t", "a", "x">>,
       <<"t", "a", "x", " ", "a", "d", "v", "a", "n", "c", "e">>,
       <<"i", "n", "c", "o", "m", "e", " ", "t", "a", "x">> >>, name)
    THEN "advance_tax"
    ELSE IF any_word(<< <<"t", "d", "s">>,
       <<"g", "s", "t">>,
       <<"s", "t", "a", "t", "u", "t", "o", "r", "y">>,
       <<"g", "o", "v", "e", "r", "n", "m", "e", "n", "t">>,
       <<"v", "a", "t">>,
       <<"p", "f">>,
       <<"e", "s", "i">> >>, name)
    THEN "statutory_balances"
    ELSE IF any_word(<< <<"a", "d", "v", "a", "n", "c", "e">>,
       <<"d", "e", "p", "o", "s", "i", "t">>,
       <<"r", "e", "c", "o", "v", "e", "r", "a", "b", "l", "e">>,
       <<"e", "m", "p", "l", "o", "y", "e", "e", " ", "a", "d", "v", "a", "n", "c", "e">>,
       <<"s", "u", "p", "p", "l", "i", "e", "r", " ", "a", "d", "v", "a", "n", "c", "e">> >>, name)
    THEN "other_advances"
    ELSE "uncategorized"

RECURSIVE accounts_in(_, _)
accounts_in(accounts, category) ==
    IF accounts = <<>> THEN <<>>
    ELSE LET before == accounts_in(SubSeq(accounts, 1, Len(accounts) - 1), category)
             account == accounts[Len(accounts)]
         IN IF category_of(lower(account.account_name)) = category
            THEN Append(before, account) ELSE before

\* lines 247-278: the categories exist for note 14 only
categorize_accounts(accounts, note_number) ==
    [c \in (IF note_number = "14" THEN Note14Categories ELSE {}) |->
        accounts_in(accounts, c)]

RECURSIVE grand_total_of(_, _)
grand_total_of(categories, names) ==
    IF names = {} THEN Zero
    ELSE LET c == CHOOSE x \in names : TRUE
         IN Add(total_amount_of(categories[c]), grand_total_of(categories, names \ {c}))

\* lines 280-301
calculate_category_totals(categories) ==
    [category_totals |->
        [c \in DOMAIN categories |->
            [amount |-> total_amount_of(categories[c]),
             lakhs |-> round2(DivideBy(total_amount_of(categories[c]), 100000)),
             count |-> Len(categories[c])]],
     grand_total_lakhs |->
        round2(DivideBy(grand_total_of(categories, DOMAIN categories), 100000))]

MaxAccounts == 2

NoteAccounts ==
    { [account_name |-> <<"P", "r", "e", "p", "a", "i", "d", " ", "I", "n", "s", "u", "r", "a", "n", "c", "e">>, amount |-> NumAmt(Normalize(250000, 0))],
      [account_name |-> <<"A", "d", "v", "a", "n", "c", "e", " ", "T", "a", "x">>, amount |-> StrAmt(<<"R", "s", ".", " ", "1", ",", "5", "0", ",", "0", "0", "0", ".", "5", "0">>)],
      [account_name |-> <<"T", "D", "S", " ", "R", "e", "c", "e", "i", "v", "a", "b", "l", "e">>, amount |-> NumAmt(Normalize(1234567, 1))],
      [account_name |-> <<"R", "e", "n", "t", " ", "D", "e", "p", "o", "s", "i", "t">>, amount |-> NoAmt],
      [account_name |-> <<"S", "u", "n", "d", "r", "y">>, amount |-> StrAmt(<<"n", "i", "l">>)] }

PromptInputs ==
    { [accounts |-> a, note_number |-> n] :
        a \in SeqsUpTo(NoteAccounts, MaxAccounts), n \in {"13", "14"} }

(***************************************************************************)
(* bl_llm1.py: the manual extraction used when the AI extraction fails.    *)
(* A JSON value is a node: a dict (entries of key and value), a list       *)
(* (entries whose key is empty) or a scalar (a string or null, in val).    *)
(***************************************************************************)
balance_sheet_structure ==
    [ shareholders_funds |->
        << <<"s", "h", "a", "r", "e", " ", "c", "a", "p", "i", "t", "a", "l">>,
           <<"e", "q", "u", "i", "t", "y", " ", "s", "h", "a", "r", "e", " ", "c", "a", "p", "i", "t", "a", "l">>,
           <<"s", "h", "a", "r", "e", " ", "c", "a", "p", "i", "t", "a", "l">>,
           <<"p", "a", "i", "d", " ", "u", "p", " ", "c", "a", "p", "i", "t", "a", "l">>,
           <<"r", "e", "s", "e", "r", "v", "e", "s", " ", "a", "n", "d", " ", "s", "u", "r", "p", "l", "u", "s">>,
           <<"r", "e", "t", "a", "i", "n", "e", "d", " ", "e", "a", "r", "n", "i", "n", "g", "s">>,
           <<"g", "e", "n", "e", "r", "a", "l", " ", "r", "e", "s", "e", "r", "v", "e", "s">>,
           <<"c", "a", "p", "i", "t", "a", "l", " ", "r", "e", "s", "e", "r", "v", "e", "s">> >>,
      non_current_liabilities |->
        << <<"l", "o", "n", "g", " ", "t", "e", "r", "m", " ", "b", "o", "r", "r", "o", "w", "i", "n", "g", "s">>,
           <<"l", "o", "n", "g", " ", "t", "e", "r", "m", " ", "l", "o", "a", "n", "s">>,
           <<"d", "e", "f", "e", "r", "r", "e", "d", " ", "t", "a", "x", " ", "l", "i", "a", "b", "i", "l", "i", "t", "y">>,
           <<"p", "r", "o", "v", "i", "s", "i", "o", "n", "s">>,
           <<"l", "o", "n", "g", " ", "t", "e", "r", "m", " ", "p", "r", "o", "v", "i", "s", "i", "o", "n", "s">>,
           <<"e", "m", "p", "l", "o", "y", "e", "e", " ", "b", "e", "n", "e", "f", "i", "t", " ", "o", "b", "l", "i", "g", "a", "t", "i", "o", "n", "s">> >>,
      current_liabilities |->
        << <<"t", "r", "a", "d", "e", " ", "p", "a", "y", "a", "b", "l", "e", "s">>,
           <<"c", "u", "r", "r", "e", "n", "t", " ", "l", "i", "a", "b", "i", "l", "i", "t", "i", "e", "s">>,
           <<"s", "h", "o", "r", "t", " ", "t", "e", "r", "m", " ", "b", "o", "r", "r", "o", "w", "i", "n", "g", "s">>,
           <<"o", "t", "h", "e", "r", " ", "c", "u", "r", "r", "e", "n", "t", " ", "l", "i", "a", "b", "i", "l", "i", "t", "i", "e", "s">>,
           <<"s", "h", "o", "r", "t", " ", "t", "e", "r", "m", " ", "p", "r", "o", "v", "i", "s", "i", "o", "n", "s">>,
           <<"c", "u", "r", "r", "e", "n", "t", " ", "p", "o", "r", "t", "i", "o", "n">> >>,
      non_current_assets |->
        << <<"f", "i", "x", "e", "d", " ", "a", "s", "s", "e", "t", "s">>,
           <<"p", "r", "o", "p", "e", "r", "t", "y", " ", "p", "l", "a", "n", "t", " ", "e", "q", "u", "i", "p", "m", "e", "n", "t">>,
           <<"t", "a", "n", "g", "i", "b", "l", "e", " ", "a", "s", "s", "e", "t", "s">>,
           <<"i", "n", "t", "a", "n", "g", "i", "b", "l", "e", " ", "a", "s", "s", "e", "t", "s">>,
           <<"c", "a", "p", "i", "t", "a", "l", " ", "w", "o", "r", "k", " ", "i", "n", " ", "p", "r", "o", "g", "r", "e", "s", "s">>,
           <<"l", "o", "n", "g", " ", "t", "e", "r", "m", " ", "l", "o", "a", "n", "s", " ", "a", "n", "d", " ", "a", "d", "v", "a", "n", "c", "e", "s">>,
           <<"i", "n", "v", "e", "s", "t", "m", "e", "n", "t", "s">>,
           <<"g", "o", "o", "d", "w", "i", "l", "l">>,
           <<"l", "a", "n", "d">>,
           <<"b", "u", "i", "l", "d", "i", "n", "g">>,
           <<"p", "l", "a", "n", "t", " ", "a", "n", "d", " ", "m", "a", "c", "h", "i", "n", "e", "r", "y">> >>,
      current_assets |->
        << <<"i", "n", "v", "e", "n", "t", "o", "r", "i", "e", "s">>,
           <<"t", "r", "a", "d", "e", " ", "r", "e", "c", "e", "i", "v", "a", "b", "l", "e", "s">>,
           <<"c", "a", "s", "h", " ", "a", "n", "d", " ", "b", "a", "n", "k", " ", "b", "a", "l", "a", "n", "c", "e", "s">>,
           <<"c", "a", "s", "h", " ", "a", "n", "d", " ", "c", "a", "s", "h", " ", "e", "q", "u", "i", "v", "a", "l", "e", "n", "t", "s">>,
           <<"s", "h", "o", "r", "t", " ", "t", "e", "r", "m", " ", "l", "o", "a", "n", "s", " ", "a", "n", "d", " ", "a", "d", "v", "a", "n", "c", "e", "s">>,
           <<"o", "t", "h", "e", "r", " ", "c", "u", "r", "r", "e", "n", "t", " ", "a", "s", "s", "e", "t", "s">>,
           <<"m", "a", "r", "k", "e", "t", "a", "b", "l", "e", " ", "s", "e", "c", "u", "r", "i", "t", "i", "e", "s">>,
           <<"p", "r", "e", "p", "a", "i", "d", " ", "e", "x", "p", "e", "n", "s", "e", "s">>,
           <<"a", "d", "v", "a", "n", "c", "e", " ", "t", "a", "x">> >> ]

Categories ==
    << "shareholders_funds", "non_current_liabilities", "current_liabilities",
       "non_current_assets", "current_assets" >>

Scalar(v) == [kind |-> "scalar", entries |-> <<>>, val |-> v]

DictOf(entries) == [kind |-> "dict", entries |-> entries, val |-> Missing]

JsonList(elems) ==
    [kind |-> "list",
     entries |-> [i \in 1..Len(elems) |-> [key |-> <<>>, value |-> elems[i]]],
     val |-> Missing]

\* str.replace(c, d) for single characters
replace_char(s, c, d) == [i \in 1..Len(s) |-> IF s[i] = c THEN d ELSE s[i]]

UpperChar(c) ==
    IF \E i \in 1..26 : LowerChars[i] = c
    THEN UpperChars[CHOOSE i \in 1..26 : LowerChars[i] = c]
    ELSE c

\* str.title(): a letter is upper-cased after a non-letter, lower-cased after a letter
title(s) ==
    [i \in 1..Len(s) |->
        IF i = 1 \/ s[i - 1] \notin Letters THEN UpperChar(s[i]) ELSE LowerChar(s[i])]

\* lines 51-67 (safe_float_conversion of bl_llm1.py); str() of a dict or a
\* list is no float literal.  The rupee sign is outside the alphabet used here.
bl_safe_float_conversion(node) ==
    IF node.kind # "scalar" THEN Zero
    ELSE IF node.val.kind = "none" THEN Zero
    ELSE LET str_val == strip(node.val.s) IN
         IF str_val \in {<<>>, <<"-">>, <<"-", "-">>, <<"N", "o", "n", "e">>,
                         <<"n", "u", "l", "l">>, <<"N", "a", "N">>}
         THEN Zero
         ELSE LET plain == remove(remove(remove(str_val, <<",">>), <<"R", "s", ".">>), <<" ">>)
                  signed == remove(replace_char(plain, "(", "-"), <<")">>)
                  r == float(signed)
              IN IF r.exc \in {"ValueError", "TypeError"} THEN Zero ELSE r

\* the text of str(value) holds '2024' or '2023' (line 201)
RECURSIVE holds_year(_)
holds_year(node) ==
    IF node.kind = "scalar"
    THEN node.val.kind = "str"
         /\ (contains(node.val.s, <<"2", "0", "2", "4">>) \/ contains(node.val.s, <<"2", "0", "2", "3">>))
    ELSE \E i \in 1..Len(node.entries) :
            \/ contains(node.entries[i].key, <<"2", "0", "2", "4">>)
            \/ contains(node.entries[i].key, <<"2", "0", "2", "3">>)
            \/ holds_year(node.entries[i].value)

has_key(node, k) == \E i \in 1..Len(node.entries) : node.entries[i].key = k

value_at(node, k) ==
    node.entries[CHOOSE i \in 1..Len(node.entries) : node.entries[i].key = k].value

\* lines 222-233: the category of a label, "" when no keyword is in it
category_of_label(label_lower) ==
    LET hits == {c \in 1..Len(Categories) :
                    \E k \in 1..Len(balance_sheet_structure[Categories[c]]) :
                        contains(label_lower, balance_sheet_structure[Categories[c]][k])}
    IN IF hits = {} THEN ""
       ELSE Categories[CHOOSE c \in hits : \A d \in hits : c <= d]

\* lines 202-220: the line item read from one key and its dict
line_item(k, value) ==
    [label |-> title(replace_char(k, "_", " ")),
     note |-> "",
     value_2024 |-> IF has_key(value, <<"V", "a", "l", "u", "e", "_", "2", "0", "2", "4">>)
                    THEN bl_safe_float_conversion(value_at(value, <<"V", "a", "l", "u", "e", "_", "2", "0", "2", "4">>)) ELSE Zero,
     value_2023 |-> IF has_key(value, <<"V", "a", "l", "u", "e", "_", "2", "0", "2", "3">>)
                    THEN bl_safe_float_conversion(value_at(value, <<"V", "a", "l", "u", "e", "_", "2", "0", "2", "3">>)) ELSE Zero]

\* lines 197-241: the items with a non-zero value, in the order of the walk,
\* each with the category the elif chain gives it
RECURSIVE search_and_categorize(_)
search_and_categorize(data) ==
    LET visit[i \in 0..Len(data.entries)] ==
            IF i = 0 THEN <<>>
            ELSE LET k == data.entries[i].key
                     value == data.entries[i].value
                     item == line_item(k, value)
                 IN visit[i - 1] \o
                    (IF data.kind = "dict" /\ value.kind = "dict" /\ holds_year(value)
                     THEN (IF item.value_2024 # Zero \/ item.value_2023 # Zero
                           THEN << [item |-> item,
                                    category |-> category_of_label(lower(item.label))] >>
                           ELSE <<>>)
                     ELSE search_and_categorize(value))
    IN IF data.kind = "scalar" THEN <<>> ELSE visit[Len(data.entries)]

ItemOf(found) == found.item

RECURSIVE items_of(_, _)
items_of(found, category) ==
    IF found = <<>> THEN <<>>
    ELSE LET before == items_of(SubSeq(found, 1, Len(found) - 1), category)
         IN IF found[Len(found)].category = category
            THEN Append(before, found[Len(found)].item) ELSE before

\* lines 179-248
fallback_manual_extraction(json_data) ==
    [c \in {Categories[i] : i \in 1..Len(Categories)} |->
        items_of(search_and_categorize(json_data), c)]

MaxLineItems == 2

LineItemKeys ==
    { <<"s", "h", "a", "r", "e", "_", "c", "a", "p", "i", "t", "a", "l">>, <<"g", "o", "o", "d", "w", "i", "l", "l">>, <<"m", "i", "s", "c", "e", "l", "l", "a", "n", "e", "o", "u", "s", "_", "e", "x", "p", "e", "n", "d", "i", "t", "u", "r", "e">> }

LineItemValues ==
    { DictOf(<< [key |-> <<"V", "a", "l", "u", "e", "_", "2", "0", "2", "4">>, value |-> Scalar(Str(<<"1", ",", "2", "5", "0", ".", "5", "0">>))],
               [key |-> <<"V", "a", "l", "u", "e", "_", "2", "0", "2", "3">>, value |-> Scalar(Str(<<"0">>))] >>),
      DictOf(<< [key |-> <<"V", "a", "l", "u", "e", "_", "2", "0", "2", "4">>, value |-> Scalar(Missing)],
               [key |-> <<"V", "a", "l", "u", "e", "_", "2", "0", "2", "3">>, value |-> Scalar(Str(<<"(", "3", ".", "5", ")">>))] >>),
      DictOf(<< [key |-> <<"V", "a", "l", "u", "e", "_", "2", "0", "2", "4">>, value |-> Scalar(Str(<<"0">>))],
               [key |-> <<"V", "a", "l", "u", "e", "_", "2", "0", "2", "3">>, value |-> Scalar(Str(<<"-">>))] >>) }

LineItemEntries == { [key |-> k, value |-> v] : k \in LineItemKeys, v \in LineItemValues }

DistinctKeys(entries) ==
    \A i, j \in 1..Len(entries) : entries[i].key = entries[j].key => i = j

\* a dict of line items, the same wrapped in a list, and the same one dict deeper
JsonInputs ==
    LET dicts == { DictOf(e) : e \in {x \in SeqsUpTo(LineItemEntries, MaxLineItems) :
                                          x # <<>> /\ DistinctKeys(x)} }
    IN dicts
       \cup { DictOf(<< [key |-> <<"i", "t", "e", "m", "s">>, value |-> JsonList(<<d>>)] >>) : d \in dicts }
       \cup { DictOf(<< [key |-> <<"b", "a", "l", "a", "n", "c", "e", "_", "s", "h", "e", "e", "t">>, value |-> d] >>) : d \in dicts }

(***************************************************************************)
(* notes/utils/utils.py: a note JSON in lakhs.  The nodes are those of the *)
(* manual extraction; a scalar holds a number, a string or null.           *)
(***************************************************************************)
\* lines 22-33
to_lakhs(value) ==
    LET number == IF value.kind = "str" THEN float(strip(remove(value.s, <<",">>)))
                  ELSE IF value.kind = "none" THEN Raise("TypeError")
                  ELSE value.r
    IN IF number.exc # "none" THEN Zero ELSE round2(DivideBy(number, 100000))

\* lines 43-50: the new value of a dict entry that holds a number or a string
converted_value(v) ==
    IF v.kind = "num" THEN NumAmt(to_lakhs(v))
    ELSE IF float(remove(v.s, <<",">>)).exc # "none" THEN v
    ELSE NumAmt(to_lakhs(NumAmt(float(remove(v.s, <<",">>)))))

\* lines 40-55
RECURSIVE convert(_)
convert(obj) ==
    IF obj.kind = "dict"
    THEN [obj EXCEPT !.entries =
            [i \in 1..Len(obj.entries) |->
                LET v == obj.entries[i].value
                IN [key |-> obj.entries[i].key,
                    value |-> IF v.kind = "scalar" /\ v.val.kind \in {"num", "str"}
                              THEN Scalar(converted_value(v.val))
                              ELSE convert(v)]]]
    ELSE IF obj.kind = "list"
    THEN [obj EXCEPT !.entries =
            [i \in 1..Len(obj.entries) |->
                [key |-> obj.entries[i].key, value |-> convert(obj.entries[i].value)]]]
    ELSE obj

\* lines 35-57
convert_note_json_to_lakhs(note_json) == convert(note_json)

MaxDepth == 2

NoteScalars ==
    { Scalar(NumAmt(Normalize(250000, 0))), Scalar(NumAmt(Normalize(1234567, 1))),
      Scalar(StrAmt(<<"1", ",", "5", "0", ",", "0", "0", "0">>)), Scalar(StrAmt(<<"C", "a", "s", "h">>)), Scalar(NoAmt) }

JsonDict(entries) == [kind |-> "dict", entries |-> entries, val |-> NoAmt]

JsonArray(elems) ==
    [kind |-> "list",
     entries |-> [i \in 1..Len(elems) |-> [key |-> <<>>, value |-> elems[i]]],
     val |-> NoAmt]

\* the note JSONs of nesting depth up to d
RECURSIVE NoteJsons(_)
NoteJsons(d) ==
    IF d = 0 THEN NoteScalars
    ELSE LET inner == NoteJsons(d - 1)
         IN NoteScalars
            \cup { JsonDict(<< [key |-> <<"t", "o", "t", "a", "l">>, value |-> x] >>) : x \in inner }
            \cup { JsonArray(<<x>>) : x \in inner }
            \cup { JsonArray(<<x, Scalar(NumAmt(Normalize(250000, 0)))>>) : x \in inner }

Waiting(fn, arg) == [fn |-> "input", arg |-> <<fn, arg>>, out |-> <<>>]

IsWaiting(fn) == call.fn = "input" /\ call.arg[1] = fn

FunctionInputs ==
    {Waiting("extract_profit_and_loss_data", x) : x \in FinancialInputs}
        \cup {Waiting("categorize_account", x) : x \in AccountNames}
        \cup {Waiting("build_llm_prompt", x) : x \in PromptInputs}
        \cup {Waiting("fallback_manual_extraction", x) : x \in JsonInputs}
        \cup {Waiting("convert_note_json_to_lakhs", x) : x \in NoteJsons(MaxDepth)}

InitFunctions ==
    /\ program = "functions"
    /\ call \in FunctionInputs
    /\ api = NoApi
    /\ bs2 = NoSheet2
    /\ report = NoReport
    /\ NotesAtRest
    /\ AmountAtRest
    /\ ClassifyAtRest
    /\ AggregateAtRest

ExtractProfitAndLossData ==
    /\ program = "functions"
    /\ IsWaiting("extract_profit_and_loss_data")
    /\ call' = [fn |-> "extract_profit_and_loss_data", arg |-> call.arg[2],
                out |-> extract_profit_and_loss_data(call.arg[2])]
    /\ UNCHANGED <<program, amountVars, classifyVars, aggregateVars, report, notesVars,
                   api, bs2>>

CategorizeAccount ==
    /\ program = "functions"
    /\ IsWaiting("categorize_account")
    /\ call' = [fn |-> "categorize_account", arg |-> call.arg[2],
                out |-> categorize_account(call.arg[2], schedule_iii_mapping)]
    /\ UNCHANGED <<program, amountVars, classifyVars, aggregateVars, report, notesVars,
                   api, bs2>>

\* build_llm_prompt, lines 309-311
BuildLlmPrompt ==
    /\ program = "functions"
    /\ IsWaiting("build_llm_prompt")
    /\ call' =
         LET classified_accounts == call.arg[2].accounts
             categories == categorize_accounts(classified_accounts, call.arg[2].note_number)
         IN [fn |-> "build_llm_prompt", arg |-> call.arg[2],
             out |-> [total_lakhs |-> note_calculate_totals(classified_accounts).total_lakhs,
                      categories |-> categories,
                      grand_total_lakhs |->
                          calculate_category_totals(categories).grand_total_lakhs]]
    /\ UNCHANGED <<program, amountVars, classifyVars, aggregateVars, report, notesVars,
                   api, bs2>>

\* fallback_manual_extraction, lines 179-248; found is the walk's record of
\* the items it built, for the properties
FallbackManualExtraction ==
    /\ program = "functions"
    /\ IsWaiting("fallback_manual_extraction")
    /\ call' = [fn |-> "fallback_manual_extraction", arg |-> call.arg[2],
                out |-> [extracted_data |-> fallback_manual_extraction(call.arg[2]),
                         found |-> search_and_categorize(call.arg[2])]]
    /\ UNCHANGED <<program, amountVars, classifyVars, aggregateVars, report, notesVars,
                   api, bs2>>

\* convert_note_json_to_lakhs, lines 35-57
ConvertNoteJsonToLakhs ==
    /\ program = "functions"
    /\ IsWaiting("convert_note_json_to_lakhs")
    /\ call' = [fn |-> "convert_note_json_to_lakhs", arg |-> call.arg[2],
                out |-> convert_note_json_to_lakhs(call.arg[2])]
    /\ UNCHANGED <<program, amountVars, classifyVars, aggregateVars, report, notesVars,
                   api, bs2>>

NextFunctions ==
    \/ ExtractProfitAndLossData
    \/ CategorizeAccount
    \/ BuildLlmPrompt
    \/ FallbackManualExtraction
    \/ ConvertNoteJsonToLakhs

SpecFunctions == InitFunctions /\ [][NextFunctions]_vars

(***************************************************************************)
(* Properties of the functions of the later steps                          *)
(***************************************************************************)
\* C26: when 'Provision for Taxation' is a list of two numbers,
\* extract_profit_and_loss_data reports the first as the current and the
\* second as the previous tax provision
C26_Counterexample ==
    (/\ call.fn = "extract_profit_and_loss_data"
     /\ call.arg.provision.kind = "list"
     /\ Len(call.arg.provision.items) = 2
     /\ \A i \in 1..2 : call.arg.provision.items[i].kind = "num")
    => call.out.tax_provision = [current |-> call.arg.provision.items[1].r,
                                 previous |-> call.arg.provision.items[2].r]

\* C27: categorize_account of a name that is exactly a keyword of the
\* mapping returns the note that keyword is mapped to, and of a name that
\* holds no keyword the note "15"
C27_Counterexample ==
    call.fn = "categorize_account"
    => /\ \A k \in 1..Len(schedule_iii_mapping) :
             schedule_iii_mapping[k].keyword = call.arg
             => call.out = schedule_iii_mapping[k].note_num
       /\ (\A k \in 1..Len(schedule_iii_mapping) :
              ~contains(lower(call.arg), schedule_iii_mapping[k].keyword))
             => call.out = "15"

RECURSIVE CategorisedCount(_, _)
CategorisedCount(categories, names) ==
    IF names = {} THEN 0
    ELSE LET c == CHOOSE x \in names : TRUE
         IN Len(categories[c]) + CategorisedCount(categories, names \ {c})

\* C28: for the accounts of a note, whatever its number, the grand total
\* of calculate_category_totals over categorize_accounts equals the total
\* of calculate_totals, and the categories hold every account once
C28_Counterexample ==
    call.fn = "build_llm_prompt"
    => /\ call.out.grand_total_lakhs = call.out.total_lakhs
       /\ CategorisedCount(call.out.categories, DOMAIN call.out.categories)
             = Len(call.arg.accounts)

PlacedIn(item) ==
    {c \in DOMAIN call.out.extracted_data :
        \E i \in 1..Len(call.out.extracted_data[c]) : call.out.extracted_data[c][i] = item}

\* C29: every line item that fallback_manual_extraction discovers with a
\* non-zero 2024 or 2023 value is in exactly one of the five categories
C29_Counterexample ==
    call.fn = "fallback_manual_extraction"
    => \A i \in 1..Len(call.out.found) :
          Cardinality(PlacedIn(call.out.found[i].item)) = 1

\* after is before with every number in lakhs and nothing else changed; a
\* string that reads as a number may stay or be converted
RECURSIVE InLakhs(_, _)
InLakhs(before, after) ==
    IF before.kind = "scalar"
    THEN IF before.val.kind = "num"
         THEN after = Scalar(NumAmt(round2(DivideBy(before.val.r, 100000))))
         ELSE IF before.val.kind = "str" /\ float(remove(before.val.s, <<",">>)).exc = "none"
         THEN after \in {before,
                         Scalar(NumAmt(round2(DivideBy(float(remove(before.val.s, <<",">>)),
                                                       100000))))}
         ELSE after = before
    ELSE /\ after.kind = before.kind
         /\ Len(after.entries) = Len(before.entries)
         /\ \A i \in 1..Len(before.entries) :
               /\ after.entries[i].key = before.entries[i].key
               /\ InLakhs(before.entries[i].value, after.entries[i].value)

\* C30: convert_note_json_to_lakhs converts every number of a note JSON to
\* lakhs, at any depth, as a dict value and as a list element, and
\* changes nothing else
C30_Counterexample ==
    call.fn = "convert_note_json_to_lakhs" => InLakhs(call.arg, call.out)

====
